---- MODULE Spec2Model ----
(***************************************************************************)
(* Model of the yapflows streaming core: the <ask>/<ask-form> tag parser   *)
(* (core/interaction_parser.py), the interaction registry                  *)
(* (tools/interaction.py), Session.send (core/session.py) and the          *)
(* WebSocket transport loop and turn task (api/websocket/handlers.py).     *)
(*                                                                         *)
(* Text is a sequence of one-character strings, so that chunk boundaries,  *)
(* tag prefixes and substring searches are computed as the code computes   *)
(* them.  Positions are 1-based; 0 stands for "not found" (Python's -1 or  *)
(* a failed regex search).                                                 *)
(*                                                                         *)
(* Each action of a turn task runs the code from one await to the next:    *)
(* asyncio is cooperative, so the transport loop and the other tasks only  *)
(* run while a task is suspended, and Task.cancel() takes effect as a      *)
(* CancelledError raised at that await when the task next runs.  The ping  *)
(* and keepalive branches of the transport loop, which only send a system  *)
(* message, are left out.                                                  *)
(*                                                                         *)
(* Specifications: Spec is the connection with its turn tasks; SpecParser, *)
(* SpecHeld and SpecTags feed one parse_interactions generator a split     *)
(* text, a text ending in a tag prefix, and a buffer of complete tags;     *)
(* SpecStreams runs the generators of one process over the shared          *)
(* registry; SpecCli is one run of the CLI adapter                         *)
(* (providers/claude_cli.py) over the lines of its subprocess, with        *)
(* Session.send taking what it yields; SpecEngine is Session.send over any *)
(* provider's events; SpecMarkup feeds the generator an <ask-form> block   *)
(* without valid children, split around a tool or error event; SpecFanout  *)
(* is the ConnectionManager (api/websocket/manager.py) with the sockets    *)
(* of one process, their turns and the turn of the messaging bridge        *)
(* (messaging/manager.py).  SpecFlush and SpecCut feed the generator a     *)
(* text that ends inside markup, the stream ending with Done and without   *)
(* it; SpecCliOpen is SpecCli with lines after the result line; SpecAsks   *)
(* is Spec started on a stream with two <ask> tags.                        *)
(***************************************************************************)
EXTENDS Integers, Sequences, FiniteSets, TLC

\* ------------------------------------------------------------------ text

Min(S) == CHOOSE x \in S : \A y \in S : x <= y

\* The least element of a set of positions, 0 for the empty set (no match).
MinOr0(S) == IF S = {} THEN 0 ELSE Min(S)

\* Python's \s and str.strip() whitespace (ASCII part).
Ws == {" ", "\t", "\n", "\r", "\f"}

\* buf[i:].startswith(pat)
MatchAt(buf, i, pat) ==
    /\ i >= 1
    /\ i + Len(pat) - 1 <= Len(buf)
    /\ SubSeq(buf, i, i + Len(pat) - 1) = pat

\* buf.find(pat, from): the first position >= from where pat occurs, 0 if none
Find(buf, pat, from) ==
    MinOr0({i \in from..(Len(buf) - Len(pat) + 1) : MatchAt(buf, i, pat)})

EndsWith(buf, suffix) ==
    /\ Len(suffix) <= Len(buf)
    /\ SubSeq(buf, Len(buf) - Len(suffix) + 1, Len(buf)) = suffix

\* str.strip()
Strip(s) ==
    LET keep == {i \in 1..Len(s) : s[i] \notin Ws}
    IN  IF keep = {} THEN <<>>
        ELSE SubSeq(s, Min(keep), CHOOSE j \in keep : \A k \in keep : k <= j)

RECURSIVE SplitOn(_, _)
\* str.split(sep) for a one-character separator
SplitOn(s, sep) ==
    LET hits == {i \in 1..Len(s) : s[i] = sep}
    IN  IF hits = {} THEN <<s>>
        ELSE <<SubSeq(s, 1, Min(hits) - 1)>>
             \o SplitOn(SubSeq(s, Min(hits) + 1, Len(s)), sep)

RECURSIVE SelectNonEmpty(_)
SelectNonEmpty(ss) ==
    IF ss = <<>> THEN <<>>
    ELSE IF Head(ss) = <<>> THEN SelectNonEmpty(Tail(ss))
    ELSE <<Head(ss)>> \o SelectNonEmpty(Tail(ss))

\* ------------------------------------------------- interaction_parser.py

TagAsk == <<"<", "a", "s", "k">>
CloseAsk == <<"<", "/", "a", "s", "k", ">">>
TagForm == <<"<", "a", "s", "k", "-", "f", "o", "r", "m">>
CloseForm == <<"<", "/", "a", "s", "k", "-", "f", "o", "r", "m", ">">>

TypeText == <<"t", "e", "x", "t">>
TypeConfirmation == <<"c", "o", "n", "f", "i", "r", "m", "a", "t", "i", "o", "n">>
TypeSingleChoice == <<"s", "i", "n", "g", "l", "e", "_", "c", "h", "o", "i", "c", "e">>
TypeMultiChoice == <<"m", "u", "l", "t", "i", "_", "c", "h", "o", "i", "c", "e">>

VALID_TYPES == {TypeText, TypeConfirmation, TypeSingleChoice, TypeMultiChoice}

AttrName == <<"n", "a", "m", "e">>
AttrType == <<"t", "y", "p", "e">>
AttrOptions == <<"o", "p", "t", "i", "o", "n", "s">>

\* Tails of both tag names that could be split across chunk boundaries,
\* in the order the code tries them.
POSSIBLE_PREFIXES ==
    << SubSeq(TagForm, 1, 9), SubSeq(TagForm, 1, 8), SubSeq(TagForm, 1, 7),
       SubSeq(TagForm, 1, 6), SubSeq(TagForm, 1, 5), SubSeq(TagForm, 1, 4),
       SubSeq(TagForm, 1, 3), SubSeq(TagForm, 1, 2), SubSeq(TagForm, 1, 1) >>

\* _BARE_ASK_START.search(buf): <ask followed by > or whitespace
BareAskStart(buf) ==
    MinOr0({i \in 1..Len(buf) :
               /\ MatchAt(buf, i, TagAsk)
               /\ i + 4 <= Len(buf)
               /\ buf[i + 4] \in ({">"} \cup Ws)})

\* _FORM_ASK_START.search(buf): <ask-form followed by >, / or whitespace
FormAskStart(buf) ==
    MinOr0({i \in 1..Len(buf) :
               /\ MatchAt(buf, i, TagForm)
               /\ i + 9 <= Len(buf)
               /\ buf[i + 9] \in ({">", "/"} \cup Ws)})

\* An extraction that drops the text before the tag.
ExtractedTagOnly(result, freshId, rest) ==
    [events |-> <<result.event>> \o rest.events,
     buf |-> rest.buf,
     ids |-> <<freshId>> \o rest.ids]

\* A parser that holds back one trailing character at most.
PrefixLenOne(k) == IF k = 0 THEN 0 ELSE 1

\* len(prefix) of the k-th entry of POSSIBLE_PREFIXES, 0 when none matched.
PrefixLen(k) == IF k = 0 THEN 0 ELSE Len(POSSIBLE_PREFIXES[k])

\* A parser that never holds a trailing tag prefix back.
PartialAskSuffixNone(buf) == 0

\* The number of trailing chars that might be the start of an ask tag: the
\* length of the first prefix of POSSIBLE_PREFIXES that buf ends with.
PartialAskSuffix(buf) ==
    PrefixLen(MinOr0({k \in 1..Len(POSSIBLE_PREFIXES) : EndsWith(buf, POSSIBLE_PREFIXES[k])}))

\* [o.strip() for o in raw.split("|") if o.strip()] if raw else []
RECURSIVE StripAll(_)
StripAll(ss) == IF ss = <<>> THEN <<>> ELSE <<Strip(Head(ss))>> \o StripAll(Tail(ss))

Options(raw) ==
    IF raw = <<>> THEN <<>> ELSE SelectNonEmpty(StripAll(SplitOn(raw, "|")))

\* The group's literal NAME=" tried at the first non-blank position j >= i.
AttrFrom(s, i, lit, j) ==
    LET q == IF j = 0 THEN 0 ELSE Find(s, <<"\"">>, j + Len(lit))
    IN  IF j > i /\ MatchAt(s, j, lit) /\ q # 0
        THEN [ok |-> TRUE, val |-> SubSeq(s, j + Len(lit), q - 1), next |-> q + 1]
        ELSE [ok |-> FALSE, val |-> <<>>, next |-> i]

\* One optional regex group (?:\s+NAME="(?P<..>[^"]*)")? tried at position i.
AttrAt(s, i, name) ==
    AttrFrom(s, i, name \o <<"=", "\"">>, MinOr0({j \in i..Len(s) : s[j] \notin Ws}))

RECURSIVE PrependVal(_, _)
PrependVal(v, cands) ==
    IF cands = <<>> THEN <<>>
    ELSE <<[vals |-> <<v>> \o Head(cands).vals, next |-> Head(cands).next]>>
         \o PrependVal(v, Tail(cands))

RECURSIVE GroupCands(_, _, _)
\* The ways the remaining groups can match when the first group matched as
\* `a` at position i: group taken before group skipped.
GroupTry(s, i, names, a) ==
    (IF a.ok THEN PrependVal(a.val, GroupCands(s, a.next, Tail(names))) ELSE <<>>)
    \o PrependVal(<<>>, GroupCands(s, i, Tail(names)))

\* The ways the optional attribute groups can match from position i, in the
\* order the backtracking regex engine tries them.  An unmatched group has
\* the value <<>> (None / "").
GroupCands(s, i, names) ==
    IF names = <<>> THEN <<[vals |-> <<>>, next |-> i]>>
    ELSE GroupTry(s, i, names, AttrAt(s, i, Head(names)))

\* The closing tag looked for after the > found at g (0: no > at all).
TailFrom(s, g) ==
    LET c == IF g = 0 THEN 0 ELSE Find(s, CloseAsk, g + 1)
    IN  IF c = 0 THEN [ok |-> FALSE, question |-> <<>>, end |-> 0]
        ELSE [ok |-> TRUE, question |-> SubSeq(s, g + 1, c - 1),
              end |-> c + Len(CloseAsk) - 1]

\* The rest of the pattern after the groups: [^>]*> (?P<question>.*?) </ask>
TailAt(s, n) == TailFrom(s, Find(s, <<">">>, n))

\* Each way of matching the groups with the match of the rest of the pattern.
WithTail(s, cands) ==
    [k \in 1..Len(cands) |-> [vals |-> cands[k].vals, tail |-> TailAt(s, cands[k].next)]]

AskFail == [ok |-> FALSE, vals |-> <<>>, question |-> <<>>, end |-> 0]

\* The first way of matching the groups that lets the whole pattern match.
AskPick(c) ==
    LET good == {k \in 1..Len(c) : c[k].tail.ok}
    IN  IF good = {} THEN AskFail
        ELSE [ok |-> TRUE, vals |-> c[Min(good)].vals,
              question |-> c[Min(good)].tail.question, end |-> c[Min(good)].tail.end]

\* _ASK_RE / _FORM_CHILD_RE matched at position p of s (re.match semantics):
\* <ask(?!-) groups [^>]*> question </ask>.  `names` lists the groups.
AskReAt(s, p, names) ==
    IF ~MatchAt(s, p, TagAsk) THEN AskFail
    ELSE IF p + 4 <= Len(s) /\ s[p + 4] = "-" THEN AskFail
    ELSE AskPick(WithTail(s, GroupCands(s, p + Len(TagAsk), names)))

\* ------------------------------------------------------------- events.py

\* Python's None, and the values the model gives to dicts, strings and times.
None == "None"
EmptyInput == "{}"
FullInput == "{x}"
ToolName == "Bash"
ResultText == "out"
Now == "now"

TextChunkEvent(content) == [type |-> "text_chunk", content |-> content]
DoneEvent == [type |-> "done"]
ErrorEvent(message) == [type |-> "error", message |-> message]
SessionIdEvent(sid) == [type |-> "session_id", cli_session_id |-> sid]
ToolStartEvent(id, tool, input) ==
    [type |-> "tool_start", tool_call_id |-> id, tool |-> tool, input |-> input]
ToolDoneEvent(id, tool, output, error, input) ==
    [type |-> "tool_done", tool_call_id |-> id, tool |-> tool, output |-> output,
     error |-> error, input |-> input]
InteractionRequestEvent(id, question, atype, opts) ==
    [type |-> "interaction_request", request_id |-> id, question |-> question,
     input_type |-> atype, options |-> opts]
InteractionFormEvent(id, questions, paginated) ==
    [type |-> "interaction_form", request_id |-> id, questions |-> questions,
     paginated |-> paginated]
FormQuestion(name, question, atype, opts) ==
    [name |-> name, question |-> question, input_type |-> atype, options |-> opts]

IsInteraction(e) == e.type \in {"interaction_request", "interaction_form"}

\* ------------------------------------------- interaction_parser.py (cont.)

\* atype = m.group("atype") or "text"; anything not in _VALID_TYPES is "text"
InputType(raw) == IF raw \in VALID_TYPES THEN raw ELSE TypeText

\* `return None` of both extractors.
NoExtract == [ok |-> FALSE, before |-> <<>>, event |-> DoneEvent, after |-> <<>>]

\* The tuple (before_text, event, after_text) once _ASK_RE matched as m.  The
\* request id is the fresh uuid4, drawn here as the next unused number;
\* register_interaction(req_id) is called before the event is returned, which
\* the callers model by registering every id of `ids` in the same step.
BareAskEvent(buf, freshId, pos, close_end, m) ==
    IF ~m.ok THEN NoExtract
    ELSE [ok |-> TRUE,
          before |-> SubSeq(buf, 1, pos - 1),
          event |-> InteractionRequestEvent(freshId, Strip(m.question),
                                            InputType(m.vals[1]), Options(m.vals[2])),
          after |-> SubSeq(buf, close_end + Len(CloseAsk), Len(buf))]

\* The tag opening at pos: its closing tag is looked for and the text between
\* is matched against _ASK_RE.
BareAskAt(buf, freshId, pos, close_end) ==
    IF pos = 0 \/ close_end = 0 THEN NoExtract
    ELSE BareAskEvent(buf, freshId, pos, close_end,
                      AskReAt(SubSeq(buf, pos, close_end + Len(CloseAsk) - 1), 1,
                              <<AttrType, AttrOptions>>))

BareAskClose(buf, freshId, pos) ==
    BareAskAt(buf, freshId, pos, IF pos = 0 THEN 0 ELSE Find(buf, CloseAsk, pos))

\* Extract the first bare <ask>...</ask> from buf; ok = FALSE is None.
TryExtractBareAsk(buf, freshId) == BareAskClose(buf, freshId, BareAskStart(buf))

Digits == <<"1", "2", "3", "4", "5", "6", "7", "8", "9">>

FormChildNames == <<AttrName, AttrType, AttrOptions>>

RECURSIVE FormChildren(_, _, _)
\* The FormQuestion of the match m, numbered i, and those of the later matches.
FormChild(inner, i, m) ==
    <<FormQuestion(Strip(IF m.vals[1] = <<>> THEN <<"q", Digits[i + 1]>> ELSE m.vals[1]),
                   Strip(m.question), InputType(m.vals[2]), Options(m.vals[3]))>>
    \o FormChildren(inner, m.end + 1, i + 1)

\* The match of _FORM_CHILD_RE at the first position p it matches at, if any.
FormChildAt(inner, i, p) ==
    IF p = 0 THEN <<>> ELSE FormChild(inner, i, AskReAt(inner, p, FormChildNames))

\* for i, m in enumerate(_FORM_CHILD_RE.finditer(inner)): the FormQuestions
\* of the matches found scanning from position `from`; i counts from 0.
FormChildren(inner, from, i) ==
    FormChildAt(inner, i,
                MinOr0({p \in from..Len(inner) : AskReAt(inner, p, FormChildNames).ok}))

\* str.lower() on the letters that matter to paginated="true"
Lower(c) ==
    CASE c = "P" -> "p" [] c = "A" -> "a" [] c = "G" -> "g" [] c = "I" -> "i"
      [] c = "N" -> "n" [] c = "T" -> "t" [] c = "E" -> "e" [] c = "D" -> "d"
      [] c = "R" -> "r" [] c = "U" -> "u" [] OTHER -> c

PaginatedTrue ==
    <<"p", "a", "g", "i", "n", "a", "t", "e", "d", "=", "\"", "t", "r", "u", "e", "\"">>

\* bool(re.search(r'paginated="true"', opening_tag, re.IGNORECASE))
Paginated(opening_tag) ==
    Find([k \in 1..Len(opening_tag) |-> Lower(opening_tag[k])], PaginatedTrue, 1) # 0

\* An extractor that makes a form event of a form without child questions too.
AskFormEventAlways(buf, freshId, pos, close_end, open_close, questions) ==
    [ok |-> TRUE,
     before |-> SubSeq(buf, 1, pos - 1),
     event |-> InteractionFormEvent(freshId, questions,
                                    Paginated(SubSeq(buf, pos, open_close))),
     after |-> SubSeq(buf, close_end + Len(CloseForm), Len(buf))]

\* The tuple (before_text, event, after_text) for the child questions found.
AskFormEvent(buf, freshId, pos, close_end, open_close, questions) ==
    IF questions = <<>> THEN NoExtract
    ELSE [ok |-> TRUE,
          before |-> SubSeq(buf, 1, pos - 1),
          event |-> InteractionFormEvent(freshId, questions,
                                         Paginated(SubSeq(buf, pos, open_close))),
          after |-> SubSeq(buf, close_end + Len(CloseForm), Len(buf))]

\* The form opening at pos, closing at close_end, its opening tag ending at
\* open_close: the children are read from the text between.
AskFormAt(buf, freshId, pos, close_end, open_close) ==
    IF pos = 0 \/ close_end = 0 THEN NoExtract
    ELSE IF open_close = 0 \/ open_close >= close_end THEN NoExtract
    ELSE AskFormEvent(buf, freshId, pos, close_end, open_close,
                      FormChildren(SubSeq(buf, open_close + 1, close_end - 1), 1, 0))

AskFormClose(buf, freshId, pos) ==
    AskFormAt(buf, freshId, pos,
              IF pos = 0 THEN 0 ELSE Find(buf, CloseForm, pos),
              IF pos = 0 THEN 0 ELSE Find(buf, <<">">>, pos))

\* Extract the first <ask-form>...</ask-form> from buf; ok = FALSE is None.
TryExtractAskForm(buf, freshId) == AskFormClose(buf, freshId, FormAskStart(buf))

\* The earlier of the two matches (0: no match), the bare ask on a tie.
EarliestTag(m_ask, m_form) ==
    IF m_ask = 0 /\ m_form = 0 THEN [pos |-> 0, kind |-> "none"]
    ELSE IF m_ask # 0 /\ (m_form = 0 \/ m_ask <= m_form)
         THEN [pos |-> m_ask, kind |-> "ask"]
    ELSE [pos |-> m_form, kind |-> "form"]

\* (position, 'ask'|'form') of the earliest interaction tag; pos = 0 is None.
FirstTagPos(buf) == EarliestTag(BareAskStart(buf), FormAskStart(buf))

\* The text flushed and the text kept when the last `keep` chars are held back.
FlushKeeping(buf, keep) ==
    [events |-> IF Len(buf) > keep
                THEN <<TextChunkEvent(SubSeq(buf, 1, Len(buf) - keep))>> ELSE <<>>,
     buf |-> SubSeq(buf, Len(buf) - keep + 1, Len(buf)),
     ids |-> <<>>]

\* A flush that holds back the whole buffer.
FlushNoTagKeepsAll(buf) == FlushKeeping(buf, Len(buf))

\* The text flushed and the text kept when no tag start is in buf.
FlushNoTag(buf) == FlushKeeping(buf, PartialAskSuffix(buf))

\* The text flushed and the text kept when a tag starts at first_pos but
\* cannot be extracted yet.
FlushBeforeTag(buf, first_pos) ==
    [events |-> IF first_pos > 1 THEN <<TextChunkEvent(SubSeq(buf, 1, first_pos - 1))>>
                ELSE <<>>,
     buf |-> SubSeq(buf, first_pos, Len(buf)),
     ids |-> <<>>]

\* events.append(TextChunkEvent(before)) if before; events.append(event); the
\* loop goes on with after_text, whose outcome is `rest`.
Extracted(result, freshId, rest) ==
    [events |-> (IF result.before # <<>> THEN <<TextChunkEvent(result.before)>> ELSE <<>>)
                \o <<result.event>> \o rest.events,
     buf |-> rest.buf,
     ids |-> <<freshId>> \o rest.ids]

RECURSIVE ProcessBuffer(_, _)
\* A pass that gives every tag it extracts the same request id.
ProcessResultSameId(buf, freshId, tag_info, result) ==
    IF ~result.ok THEN FlushBeforeTag(buf, tag_info.pos)
    ELSE Extracted(result, freshId, ProcessBuffer(result.after, freshId))

\* The tag at tag_info.pos was tried with outcome `result`.
ProcessResult(buf, freshId, tag_info, result) ==
    IF ~result.ok THEN FlushBeforeTag(buf, tag_info.pos)
    ELSE Extracted(result, freshId, ProcessBuffer(result.after, freshId + 1))

ProcessTag(buf, freshId, tag_info) ==
    IF tag_info.pos = 0 THEN FlushNoTag(buf)
    ELSE ProcessResult(buf, freshId, tag_info,
                       IF tag_info.kind = "form" THEN TryExtractAskForm(buf, freshId)
                       ELSE TryExtractBareAsk(buf, freshId))

\* Greedily extract all complete interaction tags from buf.  Returns the
\* events to yield, the remaining buffer and the request ids registered and
\* appended to `pending`, the first of them being freshId.
ProcessBuffer(buf, freshId) == ProcessTag(buf, freshId, FirstTagPos(buf))

\* The state of one parse_interactions generator: its buffer, the caller's
\* `pending` list (request ids; the queue of an id is the registry's), and
\* whether the generator has returned.
ParserInit == [buf |-> <<>>, pending |-> <<>>, closed |-> FALSE]

\* isinstance(event, TextChunkEvent): the buffer was processed with outcome r.
OnTextChunk(st, r) ==
    [out |-> r.events, ids |-> r.ids,
     st |-> [buf |-> r.buf, pending |-> st.pending \o r.ids, closed |-> FALSE]]

\* A generator that ends at Done without yielding what is left of the buffer.
OnDoneKeepsRest(st, event, f, d) ==
    [out |-> f.events \o d.events
             \o (IF st.pending \o d.ids # <<>> THEN <<>> ELSE <<event>>),
     ids |-> d.ids,
     st |-> [buf |-> d.buf, pending |-> st.pending \o d.ids, closed |-> TRUE]]

\* isinstance(event, DoneEvent): after the flush f the final extraction pass
\* gave d; what is left of the buffer is flushed as text, and Done is withheld
\* while requests are pending.
OnDone(st, event, f, d) ==
    [out |-> f.events \o d.events
             \o (IF d.buf # <<>> THEN <<TextChunkEvent(d.buf)>> ELSE <<>>)
             \o (IF st.pending \o d.ids # <<>> THEN <<>> ELSE <<event>>),
     ids |-> d.ids,
     st |-> [buf |-> d.buf, pending |-> st.pending \o d.ids, closed |-> TRUE]]

\* A generator that flushes at a non-text event but does not yield the event.
OnOtherSwallowed(st, event, freshId, f) ==
    IF event.type = "done" THEN OnDone(st, event, f, ProcessBuffer(f.buf, freshId))
    ELSE [out |-> f.events, ids |-> <<>>,
          st |-> [buf |-> f.buf, pending |-> st.pending, closed |-> FALSE]]

\* A non-text event: the safe buffered text was flushed as f.
OnOther(st, event, freshId, f) ==
    IF event.type = "done" THEN OnDone(st, event, f, ProcessBuffer(f.buf, freshId))
    ELSE [out |-> f.events \o <<event>>, ids |-> <<>>,
          st |-> [buf |-> f.buf, pending |-> st.pending, closed |-> FALSE]]

\* The flush of safe text before a non-text event is yielded.
FlushAt(buf, tag_info) ==
    IF tag_info.pos = 0 THEN FlushNoTag(buf) ELSE FlushBeforeTag(buf, tag_info.pos)

\* One iteration of `async for event in inner`: the events the generator
\* yields for `event`, its next state, and the ids it registered.
ParseEvent(st, event, freshId) ==
    IF event.type = "text_chunk"
    THEN OnTextChunk(st, ProcessBuffer(st.buf \o event.content, freshId))
    ELSE OnOther(st, event, freshId, FlushAt(st.buf, FirstTagPos(st.buf)))

RECURSIVE ParseAll(_, _, _)
ParseRest(r, events, freshId) ==
    r.out \o ParseAll(r.st, Tail(events), freshId + Len(r.ids))

\* The whole output of parse_interactions over the inner stream `events`.
ParseAll(st, events, freshId) ==
    IF events = <<>> \/ st.closed THEN <<>>
    ELSE ParseRest(ParseEvent(st, Head(events), freshId), events, freshId)

\* ------------------------------------------------------------------ state

VARIABLES
    pText,          \* parser runs: the whole text the inner stream delivers
    pSegs,          \* parser runs: the text runs and tags the text is made of
    pInput,         \* parser runs: the inner events not yet delivered
    pState,         \* parser runs: the generator's state (buf, pending, closed)
    pOut,           \* parser runs: the events the generator has yielded so far
    loop,           \* websocket_endpoint: "running", "disconnected" or "failed"
    stop_event,     \* the connection's asyncio.Event
    current,        \* current_stream_task: a turn number, 0 for None
    tasks,          \* the _stream_message tasks of the connection, by turn number
    registry,       \* _pending_async: request id -> queue content (maxsize 1)
    nextId,         \* the next fresh request id (uuid4 never repeats)
    client,         \* the messages the websocket has sent to the client, in order
    store,          \* FileSessionStore: the persisted message list of the session
    sessionExists,  \* whether the store holds the session id of the connection
    messaging,      \* whether an external chat manager is configured
    msgsLeft,       \* interaction_response messages the client has still to send
    stored_cli_session_id,  \* FileSessionStore: the persisted cli_session_id
    stdout,         \* adapter runs: the lines read from the subprocess so far
    adapter,        \* adapter runs: the locals of ClaudeCliProvider.run
    yielded,        \* provider runs: the events the provider has yielded so far
    connections,    \* ConnectionManager._connections: session id -> list of sockets
    received,       \* what each socket's client has received, in order
    closed,         \* the sockets whose send_json raises (the client is gone)
    sending,        \* the frame of the ConnectionManager.send call in progress
    runs,           \* per socket (0: the external chat) its endpoint and its turn
    stores          \* FileSessionStore: the persisted message list per session id

pvars == <<pText, pSegs, pInput, pState, pOut>>
avars == <<stdout, adapter, yielded>>
fvars == <<connections, received, closed, sending, runs, stores>>
evars == <<loop, stop_event, current, tasks, registry, nextId, client, store,
           sessionExists, messaging, msgsLeft, stored_cli_session_id>>
\* The transport and the turn tasks: what a parser run on its own leaves alone.
tvars == <<loop, stop_event, current, tasks, client, store, sessionExists,
           messaging, msgsLeft, stored_cli_session_id, avars, fvars>>
vars == <<pText, pSegs, pInput, pState, pOut, loop, stop_event, current, tasks, registry,
          nextId, client, store, sessionExists, messaging, msgsLeft,
          stored_cli_session_id, stdout, adapter, yielded,
          connections, received, closed, sending, runs, stores>>

\* The user_message turns one connection starts.
MaxTurns == 2
\* The request ids one run registers.
MaxIds == 1
\* The interaction_response messages one connection receives.
MaxClientMsgs == 2

Turns == 1..MaxTurns

\* ------------------------------------------------------ tools/interaction.py

\* A registration that stores nothing.
RegisterNothing(reg, ids) == reg

\* register_interaction(request_id) for each id of `ids`: _pending_async[id] =
\* a new empty Queue(maxsize=1).
RegisterAll(reg, ids) ==
    LET new == {ids[i] : i \in 1..Len(ids)}
    IN  [r \in DOMAIN reg \cup new |-> IF r \in new THEN <<>> ELSE reg[r]]

\* _pending_async.pop(req_id, None)
Pop(reg, rid) == [r \in DOMAIN reg \ {rid} |-> reg[r]]

\* A resolve that looks the id up with _pending_async[request_id].
ResolveInteractionStrict(reg, rid, value) ==
    IF rid \notin DOMAIN reg THEN [registry |-> reg, raised |-> TRUE]
    ELSE IF Len(reg[rid]) >= 1 THEN [registry |-> reg, raised |-> TRUE]
    ELSE [registry |-> [reg EXCEPT ![rid] = <<value>>], raised |-> FALSE]

\* resolve_interaction(request_id, value): q = _pending_async.get(request_id);
\* if q is not None: q.put_nowait(value).  put_nowait on a full queue raises
\* asyncio.QueueFull and leaves the queue as it is.
ResolveInteraction(reg, rid, value) ==
    IF rid \notin DOMAIN reg THEN [registry |-> reg, raised |-> FALSE]
    ELSE IF Len(reg[rid]) >= 1 THEN [registry |-> reg, raised |-> TRUE]
    ELSE [registry |-> [reg EXCEPT ![rid] = <<value>>], raised |-> FALSE]

\* ------------------------------------------------------------ core/session.py

\* An assistant message that leaves the tool calls out.
AssistantMessageNoTools(content, tool_calls) ==
    [role |-> "assistant", content |-> content, tool_calls |-> <<>>]

\* Message(role, content, tool_calls=[])
UserMessage(content) == [role |-> "user", content |-> content, tool_calls |-> <<>>]
AssistantMessage(content, tool_calls) ==
    [role |-> "assistant", content |-> content, tool_calls |-> tool_calls]

\* ToolCall(id, tool, input, started_at): output, error and completed_at are
\* None while the call is in flight.
ToolCall(id, tool, input) ==
    [id |-> id, tool |-> tool, input |-> input, output |-> None, error |-> None,
     started_at |-> Now, completed_at |-> None]

\* in_flight_tools[id] = tc, the ToolCall being the one at index `at` of
\* assistant_tool_calls.
PutInFlight(in_flight, id, at) ==
    [k \in DOMAIN in_flight \cup {id} |-> IF k = id THEN at ELSE in_flight[k]]

\* in_flight_tools.pop(id)
PopInFlight(in_flight, id) == [k \in DOMAIN in_flight \ {id} |-> in_flight[k]]

\* A completion that records the output and leaves the completion time unset.
CompletedUntimed(tc, e) == [tc EXCEPT !.output = e.output, !.error = e.error]

\* tc.output, tc.error, tc.completed_at are set; tc.input only `if event.input`.
Completed(tc, e) ==
    [tc EXCEPT !.output = e.output, !.error = e.error, !.completed_at = Now,
               !.input = IF e.input # EmptyInput THEN e.input ELSE @]

\* str(e) of an exception raised by the provider
ExcText == <<"e", "x", "c">>

ParagraphSep == <<"\n", "\n">>

\* The provider raising an exception instead of yielding its next event.
Raise == [type |-> "raise"]

\* The arguments the subprocess is launched with: --resume <id> if the
\* session has a cli_session_id, else --append-system-prompt (the agent's
\* prompt is not empty).
LaunchArgs(cli_session_id) ==
    [resume |-> cli_session_id, system_prompt |-> cli_session_id = None]

\* No subprocess was launched yet.
NotLaunched == [resume |-> None, system_prompt |-> FALSE]

\* One _stream_message task.  pc is the await the task is suspended at;
\* streamed is what the stream of the current Session.send has yielded,
\* parsed is what the parse_interactions generator of the current invocation
\* has yielded, produced what the generators of the whole turn have yielded.
NoTask ==
    [pc |-> "none", cancelReq |-> FALSE, message |-> <<>>, messages |-> <<>>,
     base |-> 0, invocations |-> 0, script |-> <<>>, parser |-> ParserInit,
     streamed |-> <<>>, parsed |-> <<>>, produced |-> <<>>, outq |-> <<>>,
     ended |-> FALSE,
     assistant_content |-> <<>>,
     assistant_tool_calls |-> <<>>, in_flight_tools |-> <<>>,
     had_tool |-> FALSE, completed |-> FALSE,
     cli_session_id |-> None, launched |-> NotLaunched]

\* Session.send(message) up to the first read of the provider: the user
\* message is appended (unsaved), the accumulators are fresh, and the handler
\* starts a new parse_interactions generator with a new `pending` list.
Invoke(tk, message, script) ==
    [tk EXCEPT !.pc = "reading", !.message = message,
               !.messages = Append(@, UserMessage(message)),
               !.invocations = @ + 1, !.script = script,
               !.streamed = <<>>,
               !.parser = ParserInit, !.parsed = <<>>, !.outq = <<>>,
               !.ended = FALSE, !.assistant_content = <<>>,
               !.assistant_tool_calls = <<>>, !.in_flight_tools = <<>>,
               !.had_tool = FALSE, !.launched = LaunchArgs(tk.cli_session_id)]

\* A session that records the session id and passes the event on.
SessionGenForward(tk, e) ==
    [tk |-> IF e.type = "session_id"
            THEN [tk EXCEPT !.cli_session_id = e.cli_session_id] ELSE tk,
     yields |-> IF e.type = "raise" THEN <<ErrorEvent(ExcText)>> ELSE <<e>>,
     saved |-> FALSE, ends |-> e.type = "raise"]

\* A session that passes the events on and never accumulates or appends.
SessionGenUnsaved(tk, e) ==
    [tk |-> tk,
     yields |-> IF e.type = "raise" THEN <<ErrorEvent(ExcText)>> ELSE <<e>>,
     saved |-> FALSE, ends |-> e.type = "raise"]

\* A session that keeps the provider's Done to itself.
SessionGenNoDone(tk, e) ==
    [SessionGenUnsaved(tk, e) EXCEPT !.yields = IF e.type = "done" THEN <<>> ELSE @]

\* A session that starts a new paragraph with every text chunk after the
\* first.
SessionGenSeparating(tk, e) ==
    IF e.type = "text_chunk"
    THEN [tk |-> [tk EXCEPT !.assistant_content =
                     (IF @ # <<>> THEN @ \o ParagraphSep ELSE @) \o e.content,
                  !.had_tool = FALSE],
          yields |-> <<e>>, saved |-> FALSE, ends |-> FALSE]
    ELSE SessionGenForward(tk, e)

\* Session.send._gen for one provider event (or the provider raising): the
\* task with the accumulators updated, the events _gen yields, whether the
\* state was saved and whether _gen ends after it.
SessionGen(tk, e) ==
    LET finalized == [tk EXCEPT !.messages =
                          Append(@, AssistantMessage(tk.assistant_content,
                                                     tk.assistant_tool_calls))]
    IN  CASE e.type = "session_id" ->
               [tk |-> [tk EXCEPT !.cli_session_id = e.cli_session_id],
                yields |-> <<>>, saved |-> FALSE, ends |-> FALSE]
          [] e.type = "text_chunk" ->
               [tk |-> [tk EXCEPT !.assistant_content =
                           (IF tk.had_tool /\ @ # <<>> THEN @ \o ParagraphSep ELSE @)
                           \o e.content,
                        !.had_tool = FALSE],
                yields |-> <<e>>, saved |-> FALSE, ends |-> FALSE]
          [] e.type = "tool_start" ->
               [tk |-> [tk EXCEPT !.assistant_tool_calls =
                           Append(@, ToolCall(e.tool_call_id, e.tool, e.input)),
                        !.in_flight_tools =
                           PutInFlight(@, e.tool_call_id,
                                       Len(tk.assistant_tool_calls) + 1)],
                yields |-> <<e>>, saved |-> FALSE, ends |-> FALSE]
          [] e.type = "tool_done" ->
               [tk |-> IF e.tool_call_id \in DOMAIN tk.in_flight_tools
                       THEN [tk EXCEPT !.assistant_tool_calls[tk.in_flight_tools[e.tool_call_id]] =
                                          Completed(@, e),
                                       !.in_flight_tools = PopInFlight(@, e.tool_call_id),
                                       !.had_tool = TRUE]
                       ELSE [tk EXCEPT !.had_tool = TRUE],
                yields |-> <<e>>, saved |-> FALSE, ends |-> FALSE]
          [] e.type = "done" ->
               [tk |-> finalized, yields |-> <<e>>, saved |-> TRUE, ends |-> FALSE]
          [] e.type = "raise" ->
               [tk |-> IF tk.assistant_content # <<>> THEN finalized ELSE tk,
                yields |-> <<ErrorEvent(ExcText)>>,
                saved |-> tk.assistant_content # <<>>, ends |-> TRUE]
          [] OTHER ->
               [tk |-> tk, yields |-> <<e>>, saved |-> FALSE, ends |-> FALSE]

\* `yield event` (and `yield ErrorEvent(...)`): the task once the stream of
\* Session.send has yielded what _gen made of the provider's event.
AfterYield(g) == [g.tk EXCEPT !.streamed = @ \o g.yields]

Reverse(s) == [i \in 1..Len(s) |-> s[Len(s) + 1 - i]]

\* A hand-over that gives the handler the yielded events last one first.
FeedParsedReversed(tk, g, r) ==
    [tk |-> [AfterYield(g) EXCEPT !.parser = r.st, !.parsed = @ \o r.out,
                         !.produced = @ \o r.out, !.outq = Reverse(r.out),
                         !.ended = r.st.closed \/ g.ends,
                         !.script = Tail(tk.script)],
     ids |-> r.ids, saved |-> g.saved]

\* The task after _gen handled the event as g and parse_interactions as r:
\* the events parse_interactions yields wait in outq for the handler.
FeedParsed(tk, g, r) ==
    [tk |-> [AfterYield(g) EXCEPT !.parser = r.st, !.parsed = @ \o r.out,
                         !.produced = @ \o r.out, !.outq = r.out,
                         !.ended = r.st.closed \/ g.ends,
                         !.script = Tail(tk.script)],
     ids |-> r.ids, saved |-> g.saved]

\* What _gen yields goes through parse_interactions.
FeedGen(tk, g, freshId) ==
    FeedParsed(tk, g, IF g.yields = <<>>
                      THEN [out |-> <<>>, ids |-> <<>>, st |-> tk.parser]
                      ELSE ParseEvent(tk.parser, g.yields[1], freshId))

\* One provider event through Session.send._gen and parse_interactions.
Feed(tk, e, freshId) == FeedGen(tk, SessionGen(tk, e), freshId)

\* ------------------------------------------------ api/websocket/handlers.py

IsDone(tk) == tk.pc \in {"none", "returned", "cancelled", "raised"}
IsActive(tk) == tk.pc \notin {"none", "returned", "cancelled", "raised"}

\* await ws.send_json(ev) inside the try block of _stream_message: the event
\* is sent and the task suspends at `pc`; on a closed connection the send
\* raises, `except Exception` fails to send the error too, and the task returns.
WsSend(tk, ev, pc, open) ==
    IF open THEN [tk |-> [tk EXCEPT !.pc = pc], sent |-> <<ev>>]
    ELSE [tk |-> [tk EXCEPT !.pc = "returned"], sent |-> <<>>]

\* A handler that awaits no answer when the stream ends with a request pending.
AfterLoopNoAwait(tk, stop, open) ==
    WsSend([tk EXCEPT !.completed = ~stop], DoneEvent, "done_sent", open)

\* After the `async for` of _stream_message: break and send the terminal done,
\* or await the answer of pending[0].
AfterLoop(tk, stop, open) ==
    IF stop \/ tk.parser.pending = <<>>
    THEN WsSend([tk EXCEPT !.completed = ~stop], DoneEvent, "done_sent", open)
    ELSE [tk |-> [tk EXCEPT !.pc = "awaiting"], sent |-> <<>>]

RECURSIVE HandlerResume(_, _, _)
\* The body of `async for event in parse_interactions(...)` from the point the
\* task resumes to its next await: events already yielded by the generator
\* wait in outq; SessionIdEvent and DoneEvent are skipped without an await.
HandlerResume(tk, stop, open) ==
    IF tk.outq # <<>> /\ stop
    THEN AfterLoop([tk EXCEPT !.outq = <<>>], stop, open)
    ELSE IF tk.outq # <<>> /\ Head(tk.outq).type \in {"session_id", "done"}
    THEN HandlerResume([tk EXCEPT !.outq = Tail(@)], stop, open)
    ELSE IF tk.outq # <<>>
    THEN WsSend([tk EXCEPT !.outq = Tail(@)], Head(tk.outq), "sending", open)
    ELSE IF tk.ended THEN AfterLoop(tk, stop, open)
    ELSE [tk |-> [tk EXCEPT !.pc = "reading"], sent |-> <<>>]

\* `except asyncio.CancelledError: await ws.send_json({"type": "done"}); raise`
CancelHandler(tk, open) ==
    IF open THEN [tk |-> [tk EXCEPT !.pc = "cancelled", !.cancelReq = FALSE],
                  sent |-> <<DoneEvent>>]
    ELSE [tk |-> [tk EXCEPT !.pc = "raised", !.cancelReq = FALSE], sent |-> <<>>]

Tagged(t, evs) == [i \in 1..Len(evs) |-> [turn |-> t, ev |-> evs[i]]]

\* --------------------------------------------------- providers/claude_cli.py

\* The locals of one ClaudeCliProvider.run at its start; uuid is the next
\* render id uuid4 hands out.
AdapterInit ==
    [captured_session_id |-> None, session_id_emitted |-> FALSE,
     current_text_id |-> None, pending_tools |-> <<>>, uuid |-> 1]

\* No adapter run is observed.
AdapterIdle == stdout = <<>> /\ adapter = AdapterInit /\ yielded = <<>>

\* The stream-json lines of the subprocess, each with the fields the adapter
\* reads.  A `stream_event` line carries one raw event; an `assistant` or
\* `user` line carries one content block.
InitLine(sid) == [type |-> "system", subtype |-> "init", session_id |-> sid]
TextBlockStart ==
    [type |-> "stream_event", raw_type |-> "content_block_start", block_type |-> "text"]
ToolUseBlockStart(tool_use_id) ==
    [type |-> "stream_event", raw_type |-> "content_block_start",
     block_type |-> "tool_use", id |-> tool_use_id, name |-> ToolName]
TextDelta(text) ==
    [type |-> "stream_event", raw_type |-> "content_block_delta",
     delta_type |-> "text_delta", text |-> text]
MessageStop == [type |-> "stream_event", raw_type |-> "message_stop"]
AssistantLine(tool_use_id, input) ==
    [type |-> "assistant", block_type |-> "tool_use", id |-> tool_use_id,
     input |-> input]
UserLine(tool_use_id, is_error) ==
    [type |-> "user", block_type |-> "tool_result", tool_use_id |-> tool_use_id,
     is_error |-> is_error, content |-> ResultText]
ResultLine(sid) == [type |-> "result", session_id |-> sid]

\* pending_tools[tool_use_id] = [render_id, tool_name, input]
PutTool(pending_tools, tool_use_id, entry) ==
    [k \in DOMAIN pending_tools \cup {tool_use_id} |->
        IF k = tool_use_id THEN entry ELSE pending_tools[k]]

\* pending_tools.pop(tool_use_id, None), the dict that is left
PopTool(pending_tools, tool_use_id) ==
    [k \in DOMAIN pending_tools \ {tool_use_id} |-> pending_tools[k]]

\* An adapter that yields the first session id of every init line it reads.
OnInitLineEvery(ad, line) ==
    IF line.session_id # None
    THEN [ad |-> [ad EXCEPT !.captured_session_id = line.session_id,
                            !.session_id_emitted = TRUE],
          yields |-> <<SessionIdEvent(line.session_id)>>]
    ELSE [ad |-> ad, yields |-> <<>>]

\* event_type == "system" and subtype == "init": the first session id is
\* captured and yielded.
OnInitLine(ad, line) ==
    IF line.session_id # None /\ ad.captured_session_id = None
    THEN [ad |-> [ad EXCEPT !.captured_session_id = line.session_id,
                            !.session_id_emitted = TRUE],
          yields |-> <<SessionIdEvent(line.session_id)>>]
    ELSE [ad |-> ad, yields |-> <<>>]

\* An adapter that yields the text of every text delta, whether or not a
\* text block is open.
OnStreamEventAnyDelta(ad, line) ==
    CASE line.raw_type = "content_block_start" /\ line.block_type = "text" ->
           [ad |-> [ad EXCEPT !.current_text_id = "text_id"], yields |-> <<>>]
      [] line.raw_type = "content_block_start" /\ line.block_type = "tool_use" ->
           [ad |-> [ad EXCEPT !.pending_tools =
                                 PutTool(@, line.id, [render_id |-> ad.uuid,
                                                      tool_name |-> line.name,
                                                      tool_input |-> None]),
                              !.current_text_id = None, !.uuid = @ + 1],
            yields |-> <<ToolStartEvent(ad.uuid, line.name, EmptyInput)>>]
      [] line.raw_type = "content_block_delta" ->
           [ad |-> ad,
            yields |-> IF line.delta_type = "text_delta"
                       THEN <<TextChunkEvent(line.text)>> ELSE <<>>]
      [] line.raw_type = "message_stop" ->
           [ad |-> [ad EXCEPT !.current_text_id = None], yields |-> <<>>]

\* event_type == "stream_event": a text block opens, a tool_use block opens
\* (ToolStart with a fresh render id and the empty input), a text delta is
\* yielded while a text block is open, or the message stops.
OnStreamEvent(ad, line) ==
    CASE line.raw_type = "content_block_start" /\ line.block_type = "text" ->
           [ad |-> [ad EXCEPT !.current_text_id = "text_id"], yields |-> <<>>]
      [] line.raw_type = "content_block_start" /\ line.block_type = "tool_use" ->
           [ad |-> [ad EXCEPT !.pending_tools =
                                 PutTool(@, line.id, [render_id |-> ad.uuid,
                                                      tool_name |-> line.name,
                                                      tool_input |-> None]),
                              !.current_text_id = None, !.uuid = @ + 1],
            yields |-> <<ToolStartEvent(ad.uuid, line.name, EmptyInput)>>]
      [] line.raw_type = "content_block_delta" ->
           [ad |-> ad,
            yields |-> IF line.delta_type = "text_delta" /\ ad.current_text_id # None
                       THEN <<TextChunkEvent(line.text)>> ELSE <<>>]
      [] line.raw_type = "message_stop" ->
           [ad |-> [ad EXCEPT !.current_text_id = None], yields |-> <<>>]

\* event_type == "assistant": the full input of a pending tool is recorded.
OnAssistantLine(ad, line) ==
    [ad |-> IF line.id \in DOMAIN ad.pending_tools
            THEN [ad EXCEPT !.pending_tools[line.id].tool_input = line.input]
            ELSE ad,
     yields |-> <<>>]

\* An adapter that leaves the entry of a finished tool in pending_tools.
OnUserLineNoPop(ad, line) ==
    IF line.tool_use_id \in DOMAIN ad.pending_tools
    THEN [ad |-> ad,
          yields |-> <<ToolDoneEvent(ad.pending_tools[line.tool_use_id].render_id,
                                     ad.pending_tools[line.tool_use_id].tool_name,
                                     line.content,
                                     IF line.is_error THEN line.content ELSE None,
                                     EmptyInput)>>]
    ELSE [ad |-> ad, yields |-> <<>>]

\* event_type == "user": a tool_result pops the pending entry and yields
\* ToolDoneEvent(tool_call_id, tool, output, error); `input` is not passed
\* and keeps its default, the empty dict.
OnUserLine(ad, line) ==
    IF line.tool_use_id \in DOMAIN ad.pending_tools
    THEN [ad |-> [ad EXCEPT !.pending_tools = PopTool(@, line.tool_use_id)],
          yields |-> <<ToolDoneEvent(ad.pending_tools[line.tool_use_id].render_id,
                                     ad.pending_tools[line.tool_use_id].tool_name,
                                     line.content,
                                     IF line.is_error THEN line.content ELSE None,
                                     EmptyInput)>>]
    ELSE [ad |-> ad, yields |-> <<>>]

\* event_type == "result": the session id is yielded if none was emitted by
\* an init line, then DoneEvent.
OnResultLine(ad, line) ==
    [ad |-> [ad EXCEPT !.current_text_id = None,
                       !.captured_session_id =
                           IF line.session_id # None THEN line.session_id ELSE @],
     yields |-> (IF line.session_id # None /\ ~ad.session_id_emitted
                 THEN <<SessionIdEvent(line.session_id)>> ELSE <<>>)
                \o <<DoneEvent>>]

\* One iteration of `async for raw_line in proc.stdout`.
OnLine(ad, line) ==
    CASE line.type = "system" -> OnInitLine(ad, line)
      [] line.type = "stream_event" -> OnStreamEvent(ad, line)
      [] line.type = "assistant" -> OnAssistantLine(ad, line)
      [] line.type = "user" -> OnUserLine(ad, line)
      [] line.type = "result" -> OnResultLine(ad, line)

RECURSIVE Consumed(_, _, _)
\* _gen handled the first event as g; the rest follow.
ConsumedNext(g, saved, rest) == Consumed(AfterYield(g), saved \/ g.saved, rest)

\* Session.send._gen takes the events the provider yields, one by one: the
\* task after them and whether the state was saved.
Consumed(tk, saved, evs) ==
    IF evs = <<>> THEN [tk |-> tk, saved |-> saved]
    ELSE ConsumedNext(SessionGen(tk, Head(evs)), saved, Tail(evs))

\* -------------------------------------------------- api/websocket/manager.py

\* The sockets one process accepts.
MaxSockets == 2
Sockets == 1..MaxSockets
\* The session ids of the /ws/{session_id} urls.
Conversations == {"c1", "c2"}
\* The sender of the external chat's inbound messages has no socket.
Bridge == 0
Runners == Sockets \cup {Bridge}

\* self._connections.get(session_id, [])
ConnsOf(conns, id) == IF id \in DOMAIN conns THEN conns[id] ELSE <<>>

\* ConnectionManager.connect: self._connections.setdefault(session_id, []).append(ws)
ManagerConnect(conns, id, ws) ==
    [k \in DOMAIN conns \cup {id} |->
        IF k = id THEN Append(ConnsOf(conns, id), ws) ELSE conns[k]]

\* list.remove(ws): the first occurrence goes
RemoveFirst(list, ws) ==
    LET i == Min({k \in 1..Len(list) : list[k] = ws})
    IN  SubSeq(list, 1, i - 1) \o SubSeq(list, i + 1, Len(list))

\* The list of the id after `if ws in conns: conns.remove(ws)`.
Removed(list, ws) ==
    IF \E k \in 1..Len(list) : list[k] = ws THEN RemoveFirst(list, ws) ELSE list

\* A disconnect that leaves the emptied list in the dict.
ManagerDisconnectKeepEntry(conns, id, ws) ==
    IF id \in DOMAIN conns THEN [conns EXCEPT ![id] = Removed(@, ws)] ELSE conns

\* ConnectionManager.disconnect: the socket is removed from the list of the
\* id, and `if not conns: self._connections.pop(session_id, None)`.
ManagerDisconnect(conns, id, ws) ==
    IF Removed(ConnsOf(conns, id), ws) = <<>>
    THEN [k \in DOMAIN conns \ {id} |-> conns[k]]
    ELSE [conns EXCEPT ![id] = Removed(@, ws)]

\* No ConnectionManager.send is in progress.
NoSend == [id |-> None, data |-> None, snapshot |-> <<>>, todo |-> <<>>, failed |-> {}]

\* ConnectionManager.send(session_id, data) up to its first await:
\* `list(self._connections.get(session_id, []))` is the copy the loop runs
\* over; `failed` collects the sockets whose send_json raised.
SendCall(conns, id, data) ==
    [id |-> id, data |-> data, snapshot |-> ConnsOf(conns, id),
     todo |-> ConnsOf(conns, id), failed |-> {}]

\* One iteration of the loop of send: `await ws.send_json(data)`, and on an
\* exception self.disconnect(session_id, ws); nothing is raised to the caller.
SendIteration(conns, rcv, frame, ws, raises) ==
    [connections |-> IF raises THEN ManagerDisconnect(conns, frame.id, ws) ELSE conns,
     received |-> IF raises THEN rcv ELSE [rcv EXCEPT ![ws] = Append(@, frame.data)],
     sending |-> [frame EXCEPT !.todo = Tail(@),
                               !.failed = IF raises THEN @ \cup {ws} ELSE @]]

\* One endpoint and its turn: `loop` is websocket_endpoint ("none" before the
\* socket connects, then "running", then "exited"), session_id its url
\* parameter, tk the _stream_message task (for the Bridge: the run of
\* ExternalChatManager._on_inbound).
NoRun == [loop |-> "none", session_id |-> None, tk |-> NoTask]

\* No socket has connected, nothing was sent, every session is stored empty.
FanoutIdle ==
    /\ connections = <<>>
    /\ received = [ws \in Sockets |-> <<>>]
    /\ closed = {}
    /\ sending = NoSend
    /\ runs = [r \in Runners |-> NoRun]
    /\ stores = [c \in Conversations |-> <<>>]

\* ------------------------------------------------------- provider streams

TextA == <<"a">>
AskQ == TagAsk \o <<">", "q">> \o CloseAsk
NoResponse == <<"(", "n", "o", " ", "r", "e", "s", "p", "o", "n", "s", "e", ")">>
UserContent == <<"h", "i">>
Values == {<<"y">>, <<"n">>}

\* The session id the subprocess reports for the conversation.
Sid == "s1"

\* What one run of the provider yields, event by event; a stream that ends
\* without Done is a subprocess that exits without a result line.
ProviderScripts ==
    { <<SessionIdEvent(Sid), TextChunkEvent(TextA), DoneEvent>>,
      <<SessionIdEvent(Sid), TextChunkEvent(TextA \o AskQ), DoneEvent>>,
      <<SessionIdEvent(Sid), TextChunkEvent(AskQ \o AskQ), DoneEvent>>,
      <<SessionIdEvent(Sid), TextChunkEvent(TextA), ErrorEvent(ExcText)>>,
      <<SessionIdEvent(Sid), TextChunkEvent(TextA), Raise>>,
      <<SessionIdEvent(Sid), TextChunkEvent(TextA)>> }

RECURSIVE CountInteractions(_)
CountInteractions(evs) ==
    IF evs = <<>> THEN 0
    ELSE (IF IsInteraction(Head(evs)) THEN 1 ELSE 0) + CountInteractions(Tail(evs))

\* The scripts that keep the run within MaxIds registered request ids; a
\* script without interaction markup registers none.
ScriptsFor(nid) ==
    {s \in ProviderScripts :
        \/ CountInteractions(ParseAll(ParserInit, s, 1)) = 0
        \/ nid - 1 + CountInteractions(ParseAll(ParserInit, s, 1)) <= MaxIds}

\* --------------------------------------------------- the turn task's steps

Open == loop = "running"

\* The task `t` steps to `h.tk` and sends `h.sent`.
TaskStep(t, h) ==
    /\ tasks' = [tasks EXCEPT ![t] = h.tk]
    /\ client' = client \o Tagged(t, h.sent)

\* The task's first step: Session.load, then the mirror to the external chat
\* (an await outside the try block) or the first session.send.
TaskStart(t) ==
    /\ tasks[t].pc = "created" /\ ~tasks[t].cancelReq
    /\ \/ /\ ~sessionExists
          /\ TaskStep(t, IF Open
                         THEN [tk |-> [tasks[t] EXCEPT !.pc = "returned"],
                               sent |-> <<ErrorEvent(<<"S", "e", "s", "s", "i", "o", "n", " ", "n", "o", "t", " ", "f", "o", "u", "n", "d">>)>>]
                         ELSE [tk |-> [tasks[t] EXCEPT !.pc = "raised"], sent |-> <<>>])
       \/ /\ sessionExists /\ messaging
          /\ TaskStep(t, [tk |-> [tasks[t] EXCEPT !.pc = "mirror", !.messages = store,
                                                  !.cli_session_id = stored_cli_session_id,
                                                  !.base = Len(store)],
                          sent |-> <<>>])
       \/ /\ sessionExists /\ ~messaging
          /\ \E s \in ScriptsFor(nextId) :
                TaskStep(t, [tk |-> Invoke([tasks[t] EXCEPT !.messages = store,
                                                            !.cli_session_id = stored_cli_session_id,
                                                            !.base = Len(store)],
                                           tasks[t].message, s),
                             sent |-> <<>>])
    /\ UNCHANGED <<loop, stop_event, current, registry, nextId, store,
                   stored_cli_session_id, sessionExists, messaging, msgsLeft>>
    /\ UNCHANGED <<pvars, avars, fvars>>

\* _messaging.forward_text returns (or fails, which is logged): the first
\* session.send starts.
MirrorDone(t) ==
    /\ tasks[t].pc = "mirror" /\ ~tasks[t].cancelReq
    /\ \E s \in ScriptsFor(nextId) :
          TaskStep(t, [tk |-> Invoke(tasks[t], tasks[t].message, s), sent |-> <<>>])
    /\ UNCHANGED <<loop, stop_event, current, registry, nextId, store,
                   stored_cli_session_id, sessionExists, messaging, msgsLeft>>
    /\ UNCHANGED <<pvars, avars, fvars>>

\* The step of task t once its provider event went through the generators
\* as f: the ids are registered, a finalized turn is saved, and the handler
\* runs to its next await.
Yielded(t, f) ==
    /\ TaskStep(t, HandlerResume(f.tk, stop_event, Open))
    /\ registry' = RegisterAll(registry, f.ids)
    /\ nextId' = nextId + Len(f.ids)
    /\ store' = IF f.saved THEN f.tk.messages ELSE store
    /\ stored_cli_session_id' =
          IF f.saved THEN f.tk.cli_session_id ELSE stored_cli_session_id

\* The provider yields its next event: Session.send._gen accumulates it,
\* parse_interactions registers and yields, and the handler runs to its next await.
ProviderYield(t) ==
    /\ tasks[t].pc = "reading" /\ ~tasks[t].cancelReq
    /\ tasks[t].script # <<>>
    /\ Yielded(t, Feed(tasks[t], Head(tasks[t].script), nextId))
    /\ UNCHANGED <<loop, stop_event, current, sessionExists, messaging, msgsLeft>>
    /\ UNCHANGED <<pvars, avars, fvars>>

\* The provider's stream ends without a DoneEvent: the generators return and
\* the handler leaves its `async for`.
ProviderEnds(t) ==
    /\ tasks[t].pc = "reading" /\ ~tasks[t].cancelReq
    /\ tasks[t].script = <<>>
    /\ TaskStep(t, AfterLoop([tasks[t] EXCEPT !.ended = TRUE], stop_event, Open))
    /\ UNCHANGED <<loop, stop_event, current, registry, nextId, store,
                   stored_cli_session_id, sessionExists, messaging, msgsLeft>>
    /\ UNCHANGED <<pvars, avars, fvars>>

\* ws.send_json(event) returns inside the `async for`.
SendReturns(t) ==
    /\ tasks[t].pc = "sending" /\ ~tasks[t].cancelReq
    /\ TaskStep(t, HandlerResume(tasks[t], stop_event, Open))
    /\ UNCHANGED <<loop, stop_event, current, registry, nextId, store,
                   stored_cli_session_id, sessionExists, messaging, msgsLeft>>
    /\ UNCHANGED <<pvars, avars, fvars>>

AwaitedId(tk) == tk.parser.pending[1]

\* asyncio.wait_for(q.get(), timeout=300) returns the deposited value; the
\* entry is popped and the value is sent as the next message.
AnswerReceived(t) ==
    /\ tasks[t].pc = "awaiting" /\ ~tasks[t].cancelReq
    /\ AwaitedId(tasks[t]) \in DOMAIN registry
    /\ registry[AwaitedId(tasks[t])] # <<>>
    /\ \E s \in ScriptsFor(nextId) :
          TaskStep(t, [tk |-> Invoke(tasks[t], Head(registry[AwaitedId(tasks[t])]), s),
                       sent |-> <<>>])
    /\ registry' = Pop(registry, AwaitedId(tasks[t]))
    /\ UNCHANGED <<loop, stop_event, current, nextId, store,
                   stored_cli_session_id, sessionExists, messaging, msgsLeft>>
    /\ UNCHANGED <<pvars, avars, fvars>>

\* A handler whose wait ends in an error on asyncio.TimeoutError.
TimeoutResultError(tk, s, open) ==
    IF open THEN [tk |-> [tk EXCEPT !.pc = "returned"], sent |-> <<ErrorEvent(ExcText)>>]
    ELSE [tk |-> [tk EXCEPT !.pc = "returned"], sent |-> <<>>]

\* except asyncio.TimeoutError: message = "(no response)"; the loop goes on.
TimeoutResult(tk, s, open) == [tk |-> Invoke(tk, NoResponse, s), sent |-> <<>>]

\* The 300 s pass with no value in the queue.
AnswerTimeout(t) ==
    /\ tasks[t].pc = "awaiting" /\ ~tasks[t].cancelReq
    /\ AwaitedId(tasks[t]) \in DOMAIN registry
    /\ registry[AwaitedId(tasks[t])] = <<>>
    /\ \E s \in ScriptsFor(nextId) : TaskStep(t, TimeoutResult(tasks[t], s, Open))
    /\ registry' = Pop(registry, AwaitedId(tasks[t]))
    /\ UNCHANGED <<loop, stop_event, current, nextId, store,
                   stored_cli_session_id, sessionExists, messaging, msgsLeft>>
    /\ UNCHANGED <<pvars, avars, fvars>>

\* ws.send_json({"type": "done"}) returns: forward the response to the
\* external chat if the turn completed normally, else the task returns.
DoneSendReturns(t) ==
    /\ tasks[t].pc = "done_sent" /\ ~tasks[t].cancelReq
    /\ TaskStep(t, [tk |-> [tasks[t] EXCEPT !.pc =
                               IF tasks[t].completed /\ messaging THEN "forward"
                               ELSE "returned"],
                    sent |-> <<>>])
    /\ UNCHANGED <<loop, stop_event, current, registry, nextId, store,
                   stored_cli_session_id, sessionExists, messaging, msgsLeft>>
    /\ UNCHANGED <<pvars, avars, fvars>>

\* messaging.forward_last_response returns (or fails, which is logged).
ForwardDone(t) ==
    /\ tasks[t].pc = "forward" /\ ~tasks[t].cancelReq
    /\ TaskStep(t, [tk |-> [tasks[t] EXCEPT !.pc = "returned"], sent |-> <<>>])
    /\ UNCHANGED <<loop, stop_event, current, registry, nextId, store,
                   stored_cli_session_id, sessionExists, messaging, msgsLeft>>
    /\ UNCHANGED <<pvars, avars, fvars>>

\* A cancellation that ends the task without its terminal done.
CancelResultSilent(tk, open) ==
    [tk |-> [tk EXCEPT !.pc = "cancelled", !.cancelReq = FALSE], sent |-> <<>>]

\* What CancelledError, thrown into the task at the await it is suspended at,
\* leads to: before the try block it ends the task; while reading the provider
\* the provider's `finally` first awaits proc.wait(); anywhere else in the try
\* block the handler sends done and re-raises.
CancelResult(tk, open) ==
    CASE tk.pc \in {"created", "mirror"} ->
           [tk |-> [tk EXCEPT !.pc = "cancelled", !.cancelReq = FALSE], sent |-> <<>>]
      [] tk.pc = "reading" ->
           [tk |-> [tk EXCEPT !.pc = "cancelling", !.cancelReq = FALSE], sent |-> <<>>]
      [] OTHER -> CancelHandler(tk, open)

\* The task's next step after Task.cancel(): CancelledError is raised at its
\* await.  A task cancelled while awaiting the answer pops the entry (finally).
CancelDelivered(t) ==
    /\ IsActive(tasks[t]) /\ tasks[t].cancelReq
    /\ TaskStep(t, CancelResult(tasks[t], Open))
    /\ registry' = IF tasks[t].pc = "awaiting"
                   THEN Pop(registry, AwaitedId(tasks[t])) ELSE registry
    /\ UNCHANGED <<loop, stop_event, current, nextId, store,
                   stored_cli_session_id, sessionExists, messaging, msgsLeft>>
    /\ UNCHANGED <<pvars, avars, fvars>>

\* proc.wait() returns in the provider's `finally`; CancelledError reaches
\* the handler, which sends done and re-raises.
ProcExits(t) ==
    /\ tasks[t].pc = "cancelling" /\ ~tasks[t].cancelReq
    /\ TaskStep(t, CancelHandler(tasks[t], Open))
    /\ UNCHANGED <<loop, stop_event, current, registry, nextId, store,
                   stored_cli_session_id, sessionExists, messaging, msgsLeft>>
    /\ UNCHANGED <<pvars, avars, fvars>>

\* ------------------------------------------------------ the transport loop

NumCreated == Cardinality({t \in Turns : tasks[t].pc # "none"})

\* current_stream_task.cancel() if there is a task and it is not done
CancelCurrent(ts, cur) ==
    IF cur # 0 /\ ~IsDone(ts[cur]) THEN [ts EXCEPT ![cur].cancelReq = TRUE] ELSE ts

\* {"type": "stop"}: with a turn in flight the stop event is set and the task
\* cancelled; otherwise the message changes nothing.
RecvStop ==
    /\ Open
    /\ tasks' = CancelCurrent(tasks, current)
    /\ stop_event' = IF current # 0 /\ ~IsDone(tasks[current]) THEN TRUE ELSE stop_event
    /\ UNCHANGED <<loop, current, registry, nextId, client, store,
                   stored_cli_session_id, sessionExists, messaging, msgsLeft>>
    /\ UNCHANGED <<pvars, avars, fvars>>

\* {"type": "user_message", "content": ...} with non-empty content: the turn
\* in flight is cancelled and a new task is created.
RecvUserMessage ==
    /\ Open /\ NumCreated < MaxTurns
    /\ tasks' = [CancelCurrent(tasks, current) EXCEPT ![NumCreated + 1] =
                    [NoTask EXCEPT !.pc = "created", !.message = UserContent]]
    /\ stop_event' = FALSE
    /\ current' = NumCreated + 1
    /\ UNCHANGED <<loop, registry, nextId, client, store,
                   stored_cli_session_id, sessionExists, messaging, msgsLeft>>
    /\ UNCHANGED <<pvars, avars, fvars>>

\* {"type": "interaction_response", "request_id": rid, "value": value}: an
\* exception of resolve_interaction ends the loop through `except Exception`
\* and `finally` cancels the task in flight.
RecvInteractionResponse(rid, value) ==
    /\ Open /\ msgsLeft > 0
    /\ msgsLeft' = msgsLeft - 1
    /\ LET r == ResolveInteraction(registry, rid, value)
       IN  /\ registry' = r.registry
           /\ loop' = IF r.raised THEN "failed" ELSE loop
           /\ tasks' = IF r.raised THEN CancelCurrent(tasks, current) ELSE tasks
    /\ UNCHANGED <<stop_event, current, nextId, client, store,
                   stored_cli_session_id, sessionExists, messaging>>
    /\ UNCHANGED <<pvars, avars, fvars>>

\* WebSocketDisconnect: `finally` cancels the task in flight.
Disconnect ==
    /\ Open
    /\ loop' = "disconnected"
    /\ tasks' = CancelCurrent(tasks, current)
    /\ UNCHANGED <<stop_event, current, registry, nextId, client, store,
                   stored_cli_session_id, sessionExists, messaging, msgsLeft>>
    /\ UNCHANGED <<pvars, avars, fvars>>

\* ---------------------------------------------------------- specification

Init ==
    /\ pText = <<>> /\ pSegs = <<>> /\ pInput = <<>>
    /\ pState = ParserInit /\ pOut = <<>>
    /\ loop = "running"
    /\ stop_event = FALSE
    /\ current = 0
    /\ tasks = [t \in Turns |-> NoTask]
    /\ registry = <<>>
    /\ nextId = 1
    /\ client = <<>>
    /\ store = <<>>
    /\ sessionExists \in BOOLEAN
    /\ messaging \in BOOLEAN
    /\ msgsLeft = MaxClientMsgs
    /\ stored_cli_session_id = None
    /\ AdapterIdle /\ FanoutIdle

Next ==
    \/ \E t \in Turns : TaskStart(t)
    \/ \E t \in Turns : MirrorDone(t)
    \/ \E t \in Turns : ProviderYield(t)
    \/ \E t \in Turns : ProviderEnds(t)
    \/ \E t \in Turns : SendReturns(t)
    \/ \E t \in Turns : AnswerReceived(t)
    \/ \E t \in Turns : AnswerTimeout(t)
    \/ \E t \in Turns : DoneSendReturns(t)
    \/ \E t \in Turns : ForwardDone(t)
    \/ \E t \in Turns : CancelDelivered(t)
    \/ \E t \in Turns : ProcExits(t)
    \/ RecvStop
    \/ RecvUserMessage
    \/ \E rid \in 1..(MaxIds + 1), value \in Values : RecvInteractionResponse(rid, value)
    \/ Disconnect

Spec == Init /\ [][Next]_vars

\* --------------------------------------------- a stream with two requests

\* A provider stream whose text holds two <ask> tags.
TwoAsks == <<SessionIdEvent(Sid), TextChunkEvent(AskQ \o AskQ), DoneEvent>>

\* The connection's first turn has loaded its session and called
\* session.send; the provider is about to yield the stream with two tags.
AsksInit ==
    /\ pText = <<>> /\ pSegs = <<>> /\ pInput = <<>>
    /\ pState = ParserInit /\ pOut = <<>>
    /\ loop = "running"
    /\ stop_event = FALSE
    /\ current = 1
    /\ tasks = [t \in Turns |->
                  IF t = 1 THEN Invoke([NoTask EXCEPT !.message = UserContent],
                                       UserContent, TwoAsks)
                  ELSE NoTask]
    /\ registry = <<>>
    /\ nextId = 1
    /\ client = <<>>
    /\ store = <<>>
    /\ sessionExists = TRUE
    /\ messaging \in BOOLEAN
    /\ msgsLeft = MaxClientMsgs
    /\ stored_cli_session_id = None
    /\ AdapterIdle /\ FanoutIdle

SpecAsks == AsksInit /\ [][Next]_vars

\* ------------------------------------------------------------ parser runs

\* The longest run of plain text placed before and after the tag.
MaxTextLen == 2

PlainAlphabet == {"a", "<"}

PlainTexts == UNION {[1..n -> PlainAlphabet] : n \in 0..MaxTextLen}

AskOpenings ==
    { TagAsk \o <<">">>,
      TagAsk \o <<" ">> \o AttrOptions \o <<"=", "\"", "A", "|", "B", "\"", ">">> }

Questions == { <<"q">>, <<" ", "q", "<", " ">> }

\* Well-formed inputs holding exactly one <ask>...</ask> tag.
WellFormedTexts ==
    { pre \o open \o q \o CloseAsk \o suf :
        pre \in PlainTexts, open \in AskOpenings, q \in Questions, suf \in PlainTexts }

\* The inner stream of a text delivered in two parts split at offset k.
SplitStream(text, k) ==
    << TextChunkEvent(SubSeq(text, 1, k)),
       TextChunkEvent(SubSeq(text, k + 1, Len(text))),
       DoneEvent >>

ParserSpecInit ==
    /\ pText \in WellFormedTexts
    /\ pSegs = <<>>
    /\ \E k \in 0..Len(pText) : pInput = SplitStream(pText, k)
    /\ pState = ParserInit
    /\ pOut = <<>>
    /\ loop = "running" /\ stop_event = FALSE /\ current = 0
    /\ tasks = [t \in Turns |-> NoTask]
    /\ registry = <<>> /\ nextId = 1 /\ client = <<>> /\ store = <<>>
    /\ sessionExists = TRUE /\ messaging = FALSE /\ msgsLeft = 0
    /\ stored_cli_session_id = None
    /\ AdapterIdle /\ FanoutIdle

\* The next id uuid4 hands out: ids are drawn in order, so the ids pending
\* in this stream are 1..Len(pending).
PFreshId == Len(pState.pending) + 1

\* The generator moves to r.st and its caller receives r.out.
PFed(r) ==
    /\ pState' = r.st
    /\ pOut' = pOut \o r.out

\* parse_interactions consumes a TextChunkEvent from the inner stream.
PFeedText ==
    /\ pInput # <<>> /\ ~pState.closed
    /\ Head(pInput).type = "text_chunk"
    /\ PFed(ParseEvent(pState, Head(pInput), PFreshId))
    /\ pInput' = Tail(pInput)
    /\ UNCHANGED <<pText, pSegs>>
    /\ UNCHANGED <<evars, avars, fvars>>

\* parse_interactions consumes the DoneEvent and returns.
PFeedDone ==
    /\ pInput # <<>> /\ ~pState.closed
    /\ Head(pInput).type = "done"
    /\ PFed(ParseEvent(pState, Head(pInput), PFreshId))
    /\ pInput' = Tail(pInput)
    /\ UNCHANGED <<pText, pSegs>>
    /\ UNCHANGED <<evars, avars, fvars>>

ParserNext == PFeedText \/ PFeedDone

SpecParser == ParserSpecInit /\ [][ParserNext]_vars

\* ---------------------------------------------------------- held-back runs

\* The engine part of a state in which no connection is open and no turn runs.
EngineIdle ==
    /\ loop = "running" /\ stop_event = FALSE /\ current = 0
    /\ tasks = [t \in Turns |-> NoTask]
    /\ registry = <<>> /\ nextId = 1 /\ client = <<>> /\ store = <<>>
    /\ sessionExists = TRUE /\ messaging = FALSE /\ msgsLeft = 0
    /\ stored_cli_session_id = None
    /\ AdapterIdle /\ FanoutIdle

\* Texts without a tag start that end in the first n characters of "<ask-form".
HeldTexts ==
    { pre \o SubSeq(TagForm, 1, n) : pre \in PlainTexts, n \in 1..Len(TagForm) }

\* The inner stream delivers such a text in one TextChunk and then Done.
HeldInit ==
    /\ pText \in HeldTexts
    /\ pSegs = <<>>
    /\ pInput = <<TextChunkEvent(pText), DoneEvent>>
    /\ pState = ParserInit
    /\ pOut = <<>>
    /\ EngineIdle

SpecHeld == HeldInit /\ [][ParserNext]_vars

\* ------------------------------------------------------------ adapter runs

\* The lines one run of the subprocess writes.
MaxLines == 4

\* The session ids and tool_use ids the subprocess reports.
Sids == {"s1", "s2"}
ToolUseIds == {1, 2}

\* One provider run inside one Session.send: the adapter has read nothing.
CliInit ==
    /\ pText = <<>> /\ pSegs = <<>> /\ pInput = <<>>
    /\ pState = ParserInit /\ pOut = <<>>
    /\ loop = "running" /\ stop_event = FALSE /\ current = 1
    /\ tasks = [t \in Turns |-> IF t = 1 THEN Invoke(NoTask, UserContent, <<>>)
                                 ELSE NoTask]
    /\ registry = <<>> /\ nextId = 1 /\ client = <<>> /\ store = <<>>
    /\ sessionExists = TRUE /\ messaging = FALSE /\ msgsLeft = 0
    /\ stored_cli_session_id = None
    /\ AdapterIdle /\ FanoutIdle

\* The subprocess writes another line: a result line is its last.
CanRead ==
    /\ Len(stdout) < MaxLines
    /\ IF stdout = <<>> THEN TRUE ELSE stdout[Len(stdout)].type # "result"

\* Session.send._gen took what the adapter yielded, with outcome c.
Took(c) ==
    /\ tasks' = [tasks EXCEPT ![1] = c.tk]
    /\ store' = IF c.saved THEN c.tk.messages ELSE store
    /\ stored_cli_session_id' =
          IF c.saved THEN c.tk.cli_session_id ELSE stored_cli_session_id

\* The adapter handled `line` as r and the turn engine what it yielded.
ReadAs(line, r) ==
    /\ stdout' = Append(stdout, line)
    /\ adapter' = r.ad
    /\ yielded' = yielded \o r.yields
    /\ Took(Consumed(tasks[1], FALSE, r.yields))
    /\ UNCHANGED <<loop, stop_event, current, registry, nextId, client,
                   sessionExists, messaging, msgsLeft>>
    /\ UNCHANGED <<pvars, fvars>>

Read(line) == ReadAs(line, OnLine(adapter, line))

CliSystemInit == CanRead /\ \E sid \in Sids \cup {None} : Read(InitLine(sid))

CliStreamEvent ==
    /\ CanRead
    /\ \E line \in {TextBlockStart, TextDelta(TextA), MessageStop}
                    \cup {ToolUseBlockStart(id) : id \in ToolUseIds} : Read(line)

CliAssistant == CanRead /\ \E id \in ToolUseIds : Read(AssistantLine(id, FullInput))

CliUser ==
    CanRead /\ \E id \in ToolUseIds, is_error \in BOOLEAN : Read(UserLine(id, is_error))

CliResult == CanRead /\ \E sid \in Sids \cup {None} : Read(ResultLine(sid))

CliNext == CliSystemInit \/ CliStreamEvent \/ CliAssistant \/ CliUser \/ CliResult

SpecCli == CliInit /\ [][CliNext]_vars

\* The lines a subprocess may write once it has written a result line.
LateLines ==
    {InitLine(sid) : sid \in Sids} \cup {ResultLine(sid) : sid \in Sids \cup {None}}
    \cup {TextBlockStart, TextDelta(TextA), MessageStop}
    \cup {ToolUseBlockStart(id) : id \in ToolUseIds}
    \cup {UserLine(id, FALSE) : id \in ToolUseIds}

\* `async for raw_line in proc.stdout` goes on after a result line: the loop
\* has no break, and reads whatever the subprocess writes until it closes
\* its stdout.
CliLateLine ==
    /\ Len(stdout) < MaxLines
    /\ stdout # <<>>
    /\ stdout[Len(stdout)].type = "result"
    /\ \E line \in LateLines : Read(line)

\* One run of the adapter over any lines, a result line not being the last.
CliOpenNext == CliNext \/ CliLateLine

SpecCliOpen == CliInit /\ [][CliOpenNext]_vars

\* ------------------------------------------------------------- engine runs

\* The events one provider run yields to Session.send.
MaxEvents == 5

ToolCallIds == {1, 2}

\* The provider's stream is open: Done is its last event and an exception
\* ends it.
CanYield ==
    /\ Len(yielded) < MaxEvents
    /\ ~tasks[1].ended

\* Session.send._gen handled the provider's event (or exception) e as g.
GenAs(e, g) ==
    /\ yielded' = IF e.type = "raise" THEN yielded ELSE Append(yielded, e)
    /\ tasks' = [tasks EXCEPT ![1] =
                    [AfterYield(g) EXCEPT !.ended = e.type \in {"done", "raise"}]]
    /\ store' = IF g.saved THEN g.tk.messages ELSE store
    /\ stored_cli_session_id' =
          IF g.saved THEN g.tk.cli_session_id ELSE stored_cli_session_id
    /\ UNCHANGED <<loop, stop_event, current, registry, nextId, client,
                   sessionExists, messaging, msgsLeft, stdout, adapter>>
    /\ UNCHANGED <<pvars, fvars>>

Gen(e) == GenAs(e, SessionGen(tasks[1], e))

ProviderText == CanYield /\ Gen(TextChunkEvent(TextA))

\* A provider gives every tool call an id of its own.
ProviderToolStart ==
    /\ CanYield
    /\ \E id \in ToolCallIds :
          /\ \A i \in 1..Len(yielded) :
                yielded[i].type = "tool_start" => yielded[i].tool_call_id # id
          /\ Gen(ToolStartEvent(id, ToolName, EmptyInput))

ProviderToolDone ==
    /\ CanYield
    /\ \E id \in ToolCallIds, error \in {None, ResultText},
          input \in {EmptyInput, FullInput} :
          Gen(ToolDoneEvent(id, ToolName, ResultText, error, input))

ProviderSessionId == CanYield /\ \E sid \in Sids : Gen(SessionIdEvent(sid))

ProviderDone == CanYield /\ Gen(DoneEvent)

ProviderRaises == CanYield /\ Gen(Raise)

\* The provider reports a failure as an ErrorEvent (claude_cli.py 202-204,
\* openrouter.py 141-146).
ProviderError == CanYield /\ Gen(ErrorEvent(ExcText))

\* The provider's stream ends without a DoneEvent: the subprocess exited
\* without a result line.
ProviderStops ==
    /\ CanYield
    /\ tasks' = [tasks EXCEPT ![1].ended = TRUE]
    /\ UNCHANGED <<loop, stop_event, current, registry, nextId, client, store,
                   stored_cli_session_id, sessionExists, messaging, msgsLeft>>
    /\ UNCHANGED <<pvars, avars, fvars>>

EngineNext ==
    \/ ProviderText
    \/ ProviderToolStart
    \/ ProviderToolDone
    \/ ProviderSessionId
    \/ ProviderDone
    \/ ProviderRaises
    \/ ProviderError
    \/ ProviderStops

SpecEngine == CliInit /\ [][EngineNext]_vars

\* ------------------------------------------------------- extraction passes

\* The tags one buffer holds.
MaxTags == 2

TextRuns == { <<>>, <<"a">>, <<"<">>, <<"a", "<">> }

TextRun(t) == [kind |-> "text", markup |-> t]
Tag(markup, event) == [kind |-> "tag", markup |-> markup, event |-> event]

Quoted(name, value) == <<" ">> \o name \o <<"=", "\"">> \o value \o <<"\"">>

\* Complete well-formed tags, each with the event its markup stands for
\* (the request id, 0 here, is given at extraction).
WellFormedTags ==
    { Tag(TagAsk \o <<">", "q">> \o CloseAsk,
          InteractionRequestEvent(0, <<"q">>, TypeText, <<>>)),
      Tag(TagAsk \o Quoted(AttrType, TypeSingleChoice)
                 \o Quoted(AttrOptions, <<"A", "|", "B">>)
                 \o <<">", " ", "q", " ">> \o CloseAsk,
          InteractionRequestEvent(0, <<"q">>, TypeSingleChoice, << <<"A">>, <<"B">> >>)),
      Tag(TagForm \o <<">">> \o TagAsk \o <<">", "q">> \o CloseAsk \o CloseForm,
          InteractionFormEvent(0, <<FormQuestion(<<"q", "1">>, <<"q">>, TypeText, <<>>)>>,
                               FALSE)),
      Tag(TagForm \o <<" ">> \o PaginatedTrue \o <<">">>
                  \o TagAsk \o Quoted(AttrName, <<"n">>) \o <<">", "q">> \o CloseAsk
                  \o TagAsk \o Quoted(AttrType, TypeConfirmation) \o <<">", "r">> \o CloseAsk
                  \o CloseForm,
          InteractionFormEvent(0, <<FormQuestion(<<"n">>, <<"q">>, TypeText, <<>>),
                                    FormQuestion(<<"q", "2">>, <<"r">>, TypeConfirmation, <<>>)>>,
                               TRUE)) }

RECURSIVE SegLists(_)
\* Text runs alternating with n tags: run, tag, run, ..., tag, run.
SegLists(n) ==
    IF n = 0 THEN { <<TextRun(t)>> : t \in TextRuns }
    ELSE { segs \o <<tag, TextRun(t)>> :
             segs \in SegLists(n - 1), tag \in WellFormedTags, t \in TextRuns }

RECURSIVE Flat(_)
\* The buffer the segments spell.
Flat(segs) == IF segs = <<>> THEN <<>> ELSE Head(segs).markup \o Flat(Tail(segs))

\* The inner stream delivers the whole buffer in one TextChunk and then Done.
TagsInit ==
    /\ pSegs \in UNION { SegLists(n) : n \in 0..MaxTags }
    /\ pText = Flat(pSegs)
    /\ pInput = <<TextChunkEvent(pText), DoneEvent>>
    /\ pState = ParserInit
    /\ pOut = <<>>
    /\ EngineIdle

\* The generator moves on as r: each request id of r was drawn from uuid4 and
\* registered in _pending_async by the extractor.
Registered(r) ==
    /\ PFed(r)
    /\ registry' = RegisterAll(registry, r.ids)
    /\ nextId' = nextId + Len(r.ids)

\* parse_interactions consumes a TextChunkEvent; the extractors register
\* their requests in the process-wide registry.
StreamText ==
    /\ pInput # <<>> /\ ~pState.closed
    /\ Head(pInput).type = "text_chunk"
    /\ Registered(ParseEvent(pState, Head(pInput), nextId))
    /\ pInput' = Tail(pInput)
    /\ UNCHANGED <<pText, pSegs>>
    /\ UNCHANGED tvars

\* parse_interactions consumes the DoneEvent, extracts what is left and returns.
StreamDone ==
    /\ pInput # <<>> /\ ~pState.closed
    /\ Head(pInput).type = "done"
    /\ Registered(ParseEvent(pState, Head(pInput), nextId))
    /\ pInput' = Tail(pInput)
    /\ UNCHANGED <<pText, pSegs>>
    /\ UNCHANGED tvars

TagsNext == StreamText \/ StreamDone

SpecTags == TagsInit /\ [][TagsNext]_vars

\* ------------------------------------------------- streams of one process

\* The request ids the streams of one process register.
MaxStreamIds == 3

FormQ == TagForm \o <<">">> \o AskQ \o CloseForm

\* What the inner stream of one parse_interactions generator delivers.
StreamInputs ==
    { <<TextChunkEvent(TextA \o AskQ), DoneEvent>>,
      <<TextChunkEvent(AskQ \o FormQ), DoneEvent>>,
      <<TextChunkEvent(SubSeq(AskQ, 1, 5)),
        TextChunkEvent(SubSeq(AskQ, 6, Len(AskQ))), DoneEvent>>,
      <<TextChunkEvent(AskQ), TextChunkEvent(FormQ), DoneEvent>> }

RECURSIVE Delivered(_)
\* The text of the TextChunks of an inner stream.
Delivered(events) ==
    IF events = <<>> THEN <<>>
    ELSE (IF Head(events).type = "text_chunk" THEN Head(events).content ELSE <<>>)
         \o Delivered(Tail(events))

\* The process before its first stream.
StreamsInit ==
    /\ pText = <<>> /\ pSegs = <<>> /\ pInput = <<>>
    /\ pState = ParserInit /\ pOut = <<>>
    /\ EngineIdle

\* Another turn (of this or another connection) starts a parse_interactions
\* generator with an empty buffer and a new `pending` list; the generator
\* before it is finished or abandoned.  pOut goes on collecting what the
\* generators of the process yield.
StreamOpen ==
    /\ \E input \in StreamInputs :
          /\ nextId - 1 + CountInteractions(ParseAll(ParserInit, input, 1)) <= MaxStreamIds
          /\ pInput' = input
          /\ pText' = Delivered(input)
    /\ pState' = ParserInit
    /\ UNCHANGED <<pSegs, pOut, registry, nextId>>
    /\ UNCHANGED tvars

\* _pending_async.pop(req_id, None) in the `finally` of a handler's wait.
StreamPop ==
    /\ \E rid \in DOMAIN registry : registry' = Pop(registry, rid)
    /\ UNCHANGED <<pvars, nextId>>
    /\ UNCHANGED tvars

StreamsNext == StreamOpen \/ StreamText \/ StreamDone \/ StreamPop

SpecStreams == StreamsInit /\ [][StreamsNext]_vars

\* ------------------------------------------------------- malformed markup

\* <ask-form> blocks without a valid child question: nothing inside, text
\* inside, and a child that is never closed.
EmptyForms ==
    { TagForm \o <<">">> \o CloseForm,
      TagForm \o <<">", "x">> \o CloseForm,
      TagForm \o <<">">> \o TagAsk \o <<">", "q">> \o CloseForm }

\* What comes before such a block: nothing, text, or a complete request.
BeforeForm ==
    { TextRun(<<>>), TextRun(<<"a">>),
      Tag(AskQ, InteractionRequestEvent(0, <<"q">>, TypeText, <<>>)) }

\* What follows it, all of which the parser takes as text.
AfterForm == { <<>>, <<"a">>, AskQ }

\* The events of a provider stream that are neither text nor Done.
OtherEvents ==
    { ToolStartEvent(1, ToolName, EmptyInput),
      ToolDoneEvent(1, ToolName, ResultText, None, EmptyInput),
      ErrorEvent(ExcText) }

\* The inner stream of a text delivered in two parts split at offset k, with
\* the event e between them.
SplitAround(text, k, e) ==
    << TextChunkEvent(SubSeq(text, 1, k)), e,
       TextChunkEvent(SubSeq(text, k + 1, Len(text))), DoneEvent >>

MarkupInit ==
    /\ pSegs \in { <<pre, TextRun(form \o suf)>> :
                      pre \in BeforeForm, form \in EmptyForms, suf \in AfterForm }
    /\ pText = Flat(pSegs)
    /\ \E k \in 0..Len(pText), e \in OtherEvents : pInput = SplitAround(pText, k, e)
    /\ pState = ParserInit
    /\ pOut = <<>>
    /\ EngineIdle

\* parse_interactions consumes an event that is neither text nor Done: the
\* safe text is flushed and the event yielded.
StreamOther ==
    /\ pInput # <<>> /\ ~pState.closed
    /\ Head(pInput).type \notin {"text_chunk", "done"}
    /\ Registered(ParseEvent(pState, Head(pInput), nextId))
    /\ pInput' = Tail(pInput)
    /\ UNCHANGED <<pText, pSegs>>
    /\ UNCHANGED tvars

MarkupNext == StreamText \/ StreamOther \/ StreamDone

SpecMarkup == MarkupInit /\ [][MarkupNext]_vars

\* ------------------------------------------------------ unfinished tails

\* What a stream may end in when it ends inside markup: a prefix of a tag
\* opener, and the head of a tag whose close never arrives.
UnfinishedTails ==
    { SubSeq(TagForm, 1, n) : n \in {1, 4, 5, 9} }
    \cup { TagAsk \o <<">">>,
           TagAsk \o <<">", "q">>,
           TagAsk \o <<">", "q">> \o SubSeq(CloseAsk, 1, 4),
           TagAsk \o <<" ", "x">>,
           TagForm \o <<">">>,
           TagForm \o <<">">> \o TagAsk \o <<">", "q">> \o CloseAsk }

\* A text run, at most one complete tag with a text run after it, and an
\* unfinished tail at the end of the last run.
TailedSegs ==
    { [segs EXCEPT ![Len(segs)].markup = @ \o tail] :
         segs \in SegLists(0) \cup SegLists(1), tail \in UnfinishedTails }

\* The inner stream delivers the text in two parts split at any offset, then
\* Done.
FlushInit ==
    /\ pSegs \in TailedSegs
    /\ pText = Flat(pSegs)
    /\ \E k \in 0..Len(pText) : pInput = SplitStream(pText, k)
    /\ pState = ParserInit
    /\ pOut = <<>>
    /\ EngineIdle

SpecFlush == FlushInit /\ [][TagsNext]_vars

\* ---------------------------------------------- streams that end without Done

\* The inner stream delivers the text in one TextChunk and then ends, on its
\* own (the subprocess exited without a result line) or after an ErrorEvent.
CutInit ==
    /\ pSegs \in TailedSegs
    /\ pText = Flat(pSegs)
    /\ pInput \in { <<TextChunkEvent(pText)>>,
                    <<TextChunkEvent(pText), ErrorEvent(ExcText)>> }
    /\ pState = ParserInit
    /\ pOut = <<>>
    /\ EngineIdle

\* `async for event in inner` is exhausted: parse_interactions falls off its
\* loop and returns, yielding nothing more; its local buf is gone.
StreamEnds ==
    /\ pInput = <<>> /\ ~pState.closed
    /\ pState' = [pState EXCEPT !.closed = TRUE]
    /\ UNCHANGED <<pText, pSegs, pInput, pOut, registry, nextId>>
    /\ UNCHANGED tvars

CutNext == StreamText \/ StreamOther \/ StreamEnds

SpecCut == CutInit /\ [][CutNext]_vars

\* ------------------------------------------------ connections of one process

\* The turns the sockets and the external chat start.
MaxRuns == 2

NumRuns == Cardinality({r \in Runners : runs[r].tk.pc # "none"})

\* The content of the message a runner sends.
RunnerText(r) == <<"m", <<"0", "1", "2", "3", "4", "5">>[r + 1]>>

\* What the provider yields in a run.
FanoutScript == <<SessionIdEvent(Sid), TextChunkEvent(TextA), DoneEvent>>

\* The session id the external chat is linked to.
BridgedConversation == "c1"

RemoteUserMessage(content) == [type |-> "remote_user_message", content |-> content]

InFlight(r) == IsActive(runs[r].tk)

\* websocket_endpoint starts: manager.connect(session_id, ws).
WsConnect(ws, id) ==
    /\ runs[ws].loop = "none"
    /\ runs' = [runs EXCEPT ![ws].loop = "running", ![ws].session_id = id]
    /\ connections' = ManagerConnect(connections, id, ws)
    /\ UNCHANGED <<received, closed, sending, stores>>
    /\ UNCHANGED <<pvars, evars, avars>>

\* The client goes away: from now on send_json on the socket raises.
WsCloses(ws) ==
    /\ runs[ws].loop = "running" /\ ws \notin closed
    /\ closed' = closed \cup {ws}
    /\ UNCHANGED <<connections, received, sending, runs, stores>>
    /\ UNCHANGED <<pvars, evars, avars>>

\* An endpoint that leaves the Fan-out on exit but lets its turn run on.
WsEndpointExitsNoCancel(ws) ==
    /\ runs[ws].loop = "running" /\ ws \in closed
    /\ runs' = [runs EXCEPT ![ws].loop = "exited"]
    /\ connections' = ManagerDisconnect(connections, runs[ws].session_id, ws)
    /\ UNCHANGED <<received, closed, sending, stores>>
    /\ UNCHANGED <<pvars, evars, avars>>

\* receive_json raises WebSocketDisconnect: `finally` cancels the task in
\* flight and calls manager.disconnect(session_id, ws).
WsEndpointExits(ws) ==
    /\ runs[ws].loop = "running" /\ ws \in closed
    /\ runs' = [runs EXCEPT ![ws].loop = "exited",
                            ![ws].tk.pc = IF IsActive(runs[ws].tk) THEN "cancelled" ELSE @]
    /\ connections' = ManagerDisconnect(connections, runs[ws].session_id, ws)
    /\ UNCHANGED <<received, closed, sending, stores>>
    /\ UNCHANGED <<pvars, evars, avars>>

\* The run r steps to h.tk; what the handler sends goes to its own socket.
RunStep(r, h) ==
    /\ runs' = [runs EXCEPT ![r].tk = h.tk]
    /\ received' = [received EXCEPT ![r] = @ \o h.sent]

\* {"type": "user_message"} on a socket with no turn in flight: the task
\* loads the session from the store and calls session.send.
WsUserMessage(ws) ==
    /\ runs[ws].loop = "running" /\ ws \notin closed
    /\ runs[ws].tk.pc = "none" /\ NumRuns < MaxRuns
    /\ RunStep(ws, [tk |-> Invoke([NoTask EXCEPT !.messages = stores[runs[ws].session_id],
                                                  !.base = Len(stores[runs[ws].session_id])],
                                  RunnerText(ws), FanoutScript),
                    sent |-> <<>>])
    /\ UNCHANGED <<connections, closed, sending, stores>>
    /\ UNCHANGED <<pvars, evars, avars>>

\* The step of a socket's run once its provider event went through the
\* generators as f: a finalized turn is saved under the session id, and the
\* handler runs to its next await, sending with ws.send_json.
WsYielded(ws, f) ==
    /\ RunStep(ws, HandlerResume(f.tk, FALSE, ws \notin closed))
    /\ stores' = IF f.saved THEN [stores EXCEPT ![runs[ws].session_id] = f.tk.messages]
                 ELSE stores

\* The provider of a socket's run yields its next event.
WsProviderYield(ws) ==
    /\ runs[ws].tk.pc = "reading" /\ runs[ws].tk.script # <<>>
    /\ WsYielded(ws, Feed(runs[ws].tk, Head(runs[ws].tk.script), 1))
    /\ UNCHANGED <<connections, closed, sending>>
    /\ UNCHANGED <<pvars, evars, avars>>

\* ws.send_json returns in a socket's run: inside the `async for`, or after
\* the terminal done.
WsSendReturns(ws) ==
    /\ runs[ws].tk.pc \in {"sending", "done_sent"}
    /\ RunStep(ws, IF runs[ws].tk.pc = "sending"
                   THEN HandlerResume(runs[ws].tk, FALSE, ws \notin closed)
                   ELSE [tk |-> [runs[ws].tk EXCEPT !.pc = "returned"], sent |-> <<>>])
    /\ UNCHANGED <<connections, closed, sending, stores>>
    /\ UNCHANGED <<pvars, evars, avars>>

\* ExternalChatManager._on_inbound: the session is loaded, the incoming
\* message is pushed to the sockets of the session with manager.send, and
\* session.send is called once that send returned.
InboundStart ==
    /\ runs[Bridge].tk.pc = "none" /\ NumRuns < MaxRuns
    /\ sending.todo = <<>>
    /\ runs' = [runs EXCEPT ![Bridge].session_id = BridgedConversation,
                            ![Bridge].tk =
                                Invoke([NoTask EXCEPT !.messages = stores[BridgedConversation],
                                                      !.base = Len(stores[BridgedConversation])],
                                       RunnerText(Bridge), FanoutScript)]
    /\ sending' = SendCall(connections, BridgedConversation,
                           RemoteUserMessage(RunnerText(Bridge)))
    /\ UNCHANGED <<connections, received, closed, stores>>
    /\ UNCHANGED <<pvars, evars, avars>>

\* The step of the inbound run once Session.send._gen handled the event as g:
\* a finalized turn is saved, and the event, unless it is the SessionIdEvent,
\* goes to manager.send.
InboundYielded(g) ==
    /\ runs' = [runs EXCEPT ![Bridge].tk =
                    [AfterYield(g) EXCEPT !.script = Tail(@),
                                 !.pc = IF Tail(g.tk.script) = <<>> THEN "returned" ELSE "reading"]]
    /\ stores' = IF g.saved THEN [stores EXCEPT ![BridgedConversation] = g.tk.messages]
                 ELSE stores
    /\ sending' = IF g.yields = <<>> THEN sending
                  ELSE SendCall(connections, BridgedConversation, g.yields[1])

\* The provider of the inbound run yields its next event; the previous
\* manager.send has returned.
InboundYield ==
    /\ runs[Bridge].tk.pc = "reading" /\ runs[Bridge].tk.script # <<>>
    /\ sending.todo = <<>>
    /\ InboundYielded(SessionGen(runs[Bridge].tk, Head(runs[Bridge].tk.script)))
    /\ UNCHANGED <<connections, received, closed>>
    /\ UNCHANGED <<pvars, evars, avars>>

\* The send in progress delivers to the next socket of its copy of the list.
ManagerSend ==
    /\ sending.todo # <<>>
    /\ LET r == SendIteration(connections, received, sending, Head(sending.todo),
                              Head(sending.todo) \in closed)
       IN  /\ connections' = r.connections
           /\ received' = r.received
           /\ sending' = r.sending
    /\ UNCHANGED <<closed, runs, stores>>
    /\ UNCHANGED <<pvars, evars, avars>>

FanoutInit ==
    /\ pText = <<>> /\ pSegs = <<>> /\ pInput = <<>>
    /\ pState = ParserInit /\ pOut = <<>>
    /\ EngineIdle

FanoutNext ==
    \/ \E ws \in Sockets, id \in Conversations : WsConnect(ws, id)
    \/ \E ws \in Sockets : WsCloses(ws)
    \/ \E ws \in Sockets : WsEndpointExits(ws)
    \/ \E ws \in Sockets : WsUserMessage(ws)
    \/ \E ws \in Sockets : WsProviderYield(ws)
    \/ \E ws \in Sockets : WsSendReturns(ws)
    \/ InboundStart
    \/ InboundYield
    \/ ManagerSend

SpecFanout == FanoutInit /\ [][FanoutNext]_vars

\* ---------------------------------------------------------------- claims

RECURSIVE Coalesce(_)
\* The event sequence with each run of adjacent TextChunks joined into one.
Coalesce(evs) ==
    IF Len(evs) < 2 THEN evs
    ELSE IF evs[1].type = "text_chunk" /\ evs[2].type = "text_chunk"
         THEN Coalesce(<<TextChunkEvent(evs[1].content \o evs[2].content)>>
                       \o SubSeq(evs, 3, Len(evs)))
    ELSE <<evs[1]>> \o Coalesce(Tail(evs))

\* The final event sequence of feeding the whole text as one TextChunk and Done.
WholeRun == ParseAll(ParserInit, <<TextChunkEvent(pText), DoneEvent>>, 1)

\* C1 as stated: for every split offset the two-part delivery yields the
\* identical final event sequence as the one-part delivery (request ids are
\* numbered in order of creation in both runs, so equality is up to the
\* fresh ids).
C1_IdenticalEvents == pState.closed => pOut = WholeRun

\* C1 (amended): for every well-formed text with one <ask>...</ask> tag and
\* every split offset, the two-part delivery followed by Done yields the same
\* final event sequence as the one-part delivery once adjacent TextChunks are
\* joined: the same text around the same interaction request, in the same order.
C1_ChunkBoundaryInvariance == pState.closed => Coalesce(pOut) = Coalesce(WholeRun)

\* A split strictly inside the text was parsed to the end and the request was
\* extracted, with text emitted on both sides of it.
C1_Witness ==
    /\ pState.closed
    /\ Len(pOut) >= 3
    /\ \E i \in 2..(Len(pOut) - 1) :
          /\ pOut[i].type = "interaction_request"
          /\ pOut[i - 1].type = "text_chunk"
          /\ pOut[i + 1].type = "text_chunk"
    /\ pOut # WholeRun

\* ------------------------------------------------------- claims: the engine

HasType(evs, type) == \E i \in DOMAIN evs : evs[i].type = type

\* The positions in the client's stream of the events of turn t with a type of `types`.
Sent(t, types) == {i \in DOMAIN client : client[i].turn = t /\ client[i].ev.type \in types}

\* The messages the task of turn t has appended to the session it loaded.
AppendedBy(t) == SubSeq(tasks[t].messages, tasks[t].base + 1, Len(tasks[t].messages))

WithRole(ms, role) == {i \in DOMAIN ms : ms[i].role = role}

\* C2: when the parser has received Done it has forwarded Done if and only if
\* no interaction is pending for that stream; with a request pending its
\* output holds the request and no Done, and the turn does not finish: the
\* task is still sending the parser's events or awaits the answer of the first
\* pending request, unless it was cancelled or lost its connection.
C2_DoneSuppression ==
    \A t \in Turns :
        /\ tasks[t].parser.closed =>
              (HasType(tasks[t].parsed, "done") <=> tasks[t].parser.pending = <<>>)
        /\ (tasks[t].parser.closed /\ tasks[t].parser.pending # <<>>) =>
              /\ HasType(tasks[t].parsed, "interaction_request")
              /\ ~tasks[t].completed
              /\ \/ tasks[t].pc \in {"sending", "awaiting", "cancelled", "raised"}
                 \/ tasks[t].pc = "returned" /\ ~Open
        /\ tasks[t].pc = "awaiting" =>
              /\ tasks[t].parser.closed
              /\ tasks[t].parser.pending # <<>>
              /\ Sent(t, {"done"}) = {}

\* A turn whose stream ended with a request pending awaits its answer.
C2_Witness ==
    \E t \in Turns :
        /\ tasks[t].pc = "awaiting"
        /\ tasks[t].parser.closed
        /\ HasType(tasks[t].parsed, "interaction_request")
        /\ ~HasType(tasks[t].parsed, "done")
        /\ Sent(t, {"interaction_request"}) # {}

\* C3 as stated: every turn sends exactly one terminal event: never more than
\* one of done and error, and exactly one once the turn has ended on an open
\* connection.
C3_ExactlyOneTerminal ==
    \A t \in Turns :
        /\ Cardinality(Sent(t, {"done", "error"})) <= 1
        /\ (tasks[t].pc \in {"returned", "cancelled", "raised"} /\ Open) =>
              Cardinality(Sent(t, {"done", "error"})) = 1

\* The step of turn t, cancelled inside its stream, at which it observes the
\* cancellation, and the silence of a cancelled turn.
C4_Step(t) ==
    /\ (tasks[t].cancelReq /\ tasks[t].pc = "reading" /\ tasks'[t].pc # "reading") =>
          /\ tasks'[t].pc = "cancelling"
          /\ client' = client
    /\ (tasks[t].cancelReq /\ tasks[t].pc \in {"sending", "awaiting"}
          /\ tasks'[t].pc # tasks[t].pc /\ Open) =>
          /\ tasks'[t].pc = "cancelled"
          /\ Sent(t, {"done"}) = {}
          /\ client' = Append(client, [turn |-> t, ev |-> DoneEvent])
    /\ (tasks[t].pc = "cancelling" /\ tasks'[t].pc # "cancelling" /\ Open) =>
          /\ tasks'[t].pc = "cancelled"
          /\ Sent(t, {"done"}) = {}
          /\ client' = Append(client, [turn |-> t, ev |-> DoneEvent])
    /\ tasks[t].pc = "cancelled" =>
          /\ tasks'[t] = tasks[t]
          /\ \A i \in (Len(client) + 1)..Len(client') : client'[i].turn # t

\* C4: a turn cancelled while it reads the provider, sends an event or awaits
\* an answer takes the cancellation as its next step; on an open connection it
\* then sends one done, the first done of the turn (after the provider's
\* subprocess was reaped if it was reading), and nothing of that turn is sent
\* after it.
C4_CancelledMidStream == [][\A t \in Turns : C4_Step(t)]_vars

\* A turn that had streamed text was cancelled and closed with its only done.
C4_Witness ==
    \E t \in Turns :
        /\ tasks[t].pc = "cancelled" /\ Open
        /\ tasks[t].invocations >= 1
        /\ Sent(t, {"text_chunk"}) # {}
        /\ Cardinality(Sent(t, {"done"})) = 1
        /\ \A i \in Sent(t, {"text_chunk"}) : \A j \in Sent(t, {"done"}) : i < j

C6_Step(t) ==
    (/\ IsActive(tasks[t])
     /\ tasks[t].parser.pending # <<>>
     /\ AwaitedId(tasks[t]) \in DOMAIN registry
     /\ registry[AwaitedId(tasks[t])] # <<>>) =>
        \/ /\ AwaitedId(tasks[t]) \in DOMAIN registry'
           /\ registry'[AwaitedId(tasks[t])] = registry[AwaitedId(tasks[t])]
           /\ tasks'[t].parser.pending = tasks[t].parser.pending
        \/ /\ tasks[t].pc = "awaiting" /\ ~tasks[t].cancelReq
           /\ tasks'[t].pc = "reading"
           /\ tasks'[t].message = Head(registry[AwaitedId(tasks[t])])
        \/ tasks[t].pc = "awaiting" /\ tasks[t].cancelReq

\* C6: every interaction event reaches the client with its request id already
\* registered, and a value deposited for the first pending request of a turn,
\* at any point after that, is kept until the turn awaits it; the await then
\* returns exactly that value (unless the turn is cancelled while awaiting).
C6_EarlyAnswerKept ==
    [][/\ \A i \in (Len(client) + 1)..Len(client') :
             IsInteraction(client'[i].ev) => client'[i].ev.request_id \in DOMAIN registry'
       /\ \A t \in Turns : C6_Step(t)]_vars

\* An answer is in the slot while its turn is still sending or reading.
C6_Witness ==
    \E t \in Turns :
        /\ tasks[t].pc \in {"sending", "reading"} /\ ~tasks[t].cancelReq
        /\ tasks[t].parser.pending # <<>>
        /\ Sent(t, {"interaction_request"}) # {}
        /\ AwaitedId(tasks[t]) \in DOMAIN registry
        /\ registry[AwaitedId(tasks[t])] # <<>>

\* The step by which turn t, not cancelled, leaves its await.
C7_Step(t) ==
    /\ tasks[t].pc = "awaiting" => AwaitedId(tasks[t]) \in DOMAIN registry
    /\ (tasks[t].pc = "awaiting" /\ ~tasks[t].cancelReq /\ tasks'[t].pc # "awaiting") =>
          /\ tasks'[t].pc = "reading"
          /\ tasks'[t].invocations = tasks[t].invocations + 1
          /\ tasks'[t].message = IF registry[AwaitedId(tasks[t])] # <<>>
                                 THEN Head(registry[AwaitedId(tasks[t])])
                                 ELSE NoResponse
          /\ tasks'[t].messages = Append(tasks[t].messages, UserMessage(tasks'[t].message))
          /\ client' = client

\* C7: a turn awaiting an answer, unless cancelled, resumes: with the value
\* deposited for the awaited request, else after the timeout with the literal
\* "(no response)"; either is the message of the turn's next model invocation,
\* and nothing, in particular no error, is sent to the client.
C7_AwaitResumes == [][\A t \in Turns : C7_Step(t)]_vars

\* A turn went on after a timeout with the placeholder answer.
C7_Witness ==
    \E t \in Turns :
        /\ tasks[t].invocations = 2
        /\ tasks[t].message = NoResponse
        /\ Sent(t, {"error"}) = {}
        /\ tasks[t].pc = "reading"

\* C8 as stated: an interaction_response, also a second one for a request
\* whose value is not consumed yet, raises nothing: the transport loop and the
\* turn in flight go on as they were.
C8_ResolveNeverRaises ==
    [][(\E rid \in 1..(MaxIds + 1), value \in Values : RecvInteractionResponse(rid, value))
          => (loop' = loop /\ tasks' = tasks)]_vars

\* C9: an interaction_response for an id that is not in the registry raises
\* nothing and changes nothing: the registry, the loop, every task and what
\* the client and the store hold stay as they are.
C9_UnknownIdNoOp ==
    [][\A rid \in 1..(MaxIds + 1), value \in Values :
          (rid \notin DOMAIN registry /\ RecvInteractionResponse(rid, value)) =>
             /\ registry' = registry
             /\ loop' = loop
             /\ tasks' = tasks
             /\ UNCHANGED <<stop_event, current, nextId, client, store>>]_vars

\* A response arrived before any id was registered, with a turn in flight, and
\* the loop and the turn go on.
C9_Witness ==
    /\ msgsLeft < MaxClientMsgs
    /\ nextId = 1 /\ registry = <<>>
    /\ loop = "running"
    /\ \E t \in Turns : tasks[t].pc = "reading" /\ ~tasks[t].cancelReq

\* C10 as stated: once every turn has ended, no entry registered during a
\* turn remains in the registry.
C10_NoEntryRemains ==
    (\A t \in Turns : IsDone(tasks[t])) => DOMAIN registry = {}

\* The length of the longest prefix of "<ask-form" that the text ends with.
LongestTrailingPrefix(text) ==
    LET fits == {n \in 0..Len(TagForm) :
                    /\ n <= Len(text)
                    /\ SubSeq(text, Len(text) - n + 1, Len(text)) = SubSeq(TagForm, 1, n)}
    IN  CHOOSE n \in fits : \A m \in fits : m <= n

\* C11: when a text with no tag start that ends in a prefix of a tag opener
\* has been delivered as a TextChunk, the parser has emitted exactly the text
\* before the longest such trailing prefix (one TextChunk, or nothing when
\* that text is empty) and holds the prefix back in its buffer.
C11_HeldBackSuffix ==
    (pText \in HeldTexts /\ pInput = <<DoneEvent>> /\ ~pState.closed) =>
        /\ LongestTrailingPrefix(pText) >= 1
        /\ pState.buf = SubSeq(pText, Len(pText) - LongestTrailingPrefix(pText) + 1,
                               Len(pText))
        /\ pOut = IF Len(pText) > LongestTrailingPrefix(pText)
                  THEN <<TextChunkEvent(SubSeq(pText, 1,
                                Len(pText) - LongestTrailingPrefix(pText)))>>
                  ELSE <<>>

\* "a<ask-f" was delivered: "a" is out and "<ask-f" is held back.
C11_Witness ==
    /\ pText = <<"a">> \o SubSeq(TagForm, 1, 6)
    /\ pInput = <<DoneEvent>>
    /\ pOut = <<TextChunkEvent(<<"a">>)>>
    /\ pState.buf = SubSeq(TagForm, 1, 6)

RECURSIVE ExpectedEvents(_, _)
\* What the segments stand for: a TextChunk per non-empty text run and the
\* tag's event, the ids counting up from `id`.
ExpectedEvents(segs, id) ==
    IF segs = <<>> THEN <<>>
    ELSE IF Head(segs).kind = "text"
    THEN (IF Head(segs).markup = <<>> THEN <<>>
          ELSE <<TextChunkEvent(Head(segs).markup)>>)
         \o ExpectedEvents(Tail(segs), id)
    ELSE <<[Head(segs).event EXCEPT !.request_id = id]>>
         \o ExpectedEvents(Tail(segs), id + 1)

\* The segments with the last text run cut before its trailing tag prefix.
SafeSegs(segs) ==
    [segs EXCEPT ![Len(segs)].markup =
        SubSeq(@, 1, Len(@) - LongestTrailingPrefix(@))]

\* C12: after one pass over a buffer of complete well-formed tags the parser
\* has emitted, in buffer order, a TextChunk for each non-empty text run and
\* one interaction event per tag (the text after the last tag up to a held
\* back tag prefix); every request id is registered and pending, and no
\* TextChunk holds tag markup.
C12_TagExtraction ==
    (pSegs # <<>> /\ pInput = <<DoneEvent>> /\ ~pState.closed) =>
        /\ pOut = ExpectedEvents(SafeSegs(pSegs), 1)
        /\ \A i \in 1..Len(pOut) :
              /\ IsInteraction(pOut[i]) => pOut[i].request_id \in DOMAIN registry
              /\ pOut[i].type = "text_chunk" => Find(pOut[i].content, TagAsk, 1) = 0
        /\ Len(pState.pending) = (Len(pSegs) - 1) \div 2
        /\ DOMAIN registry = {pState.pending[i] : i \in 1..Len(pState.pending)}

\* A form and a request with text before, between and after were extracted.
C12_Witness ==
    /\ Len(pSegs) = 5 /\ pInput = <<DoneEvent>>
    /\ Len(pOut) = 5
    /\ pOut[1].type = "text_chunk" /\ pOut[2].type = "interaction_form"
    /\ pOut[3].type = "text_chunk" /\ pOut[4].type = "interaction_request"
    /\ pOut[5].type = "text_chunk"
    /\ pOut[2].request_id = 1 /\ pOut[4].request_id = 2
    /\ DOMAIN registry = {1, 2}

\* The request ids of the interaction events of a sequence, in order.
RequestIds(evs) ==
    LET asked == SelectSeq(evs, IsInteraction)
    IN  [i \in 1..Len(asked) |-> asked[i].request_id]

\* The events a step appends to pOut carry request ids that differ from one
\* another, from the id of every event emitted before and from every id that
\* is in the registry before the step; what the registry held stays as it was.
C13_Step ==
    LET old == RequestIds(pOut)
        new == RequestIds(SubSeq(pOut', Len(pOut) + 1, Len(pOut')))
    IN  /\ \A i, j \in 1..Len(new) : new[i] = new[j] => i = j
        /\ \A i \in 1..Len(new) :
              /\ new[i] \notin {old[k] : k \in 1..Len(old)}
              /\ new[i] \notin DOMAIN registry
              /\ new[i] \in DOMAIN registry'
        /\ Len(new) > 0 =>
              \A r \in DOMAIN registry : r \in DOMAIN registry' /\ registry'[r] = registry[r]

\* C13: across the streams of one process no two emitted interaction events
\* share a request_id, and no registration overwrites a registry entry that
\* is still pending.
C13_RequestIdsUnique == [][Len(pOut') >= Len(pOut) /\ C13_Step]_vars

\* Three requests of two streams were emitted; the second was popped while
\* the first and the third are pending.
C13_Witness ==
    /\ RequestIds(pOut) = <<1, 2, 3>>
    /\ DOMAIN registry = {1, 3}

\* Every ToolDone of the stream follows a ToolStart with its call id, and no
\* two ToolDones share a call id.
ToolEventsLinked(evs) ==
    \A j \in 1..Len(evs) :
        evs[j].type = "tool_done" =>
            /\ \E i \in 1..(j - 1) :
                  evs[i].type = "tool_start" /\ evs[i].tool_call_id = evs[j].tool_call_id
            /\ \A k \in 1..(j - 1) :
                  evs[k].type = "tool_done" => evs[k].tool_call_id # evs[j].tool_call_id

\* The tool_use id has an open call in the lines: a tool_use block start
\* with no tool_result for the id after it.
OpenCall(lines, tool_use_id) ==
    \E i \in 1..Len(lines) :
        /\ lines[i] = ToolUseBlockStart(tool_use_id)
        /\ \A j \in (i + 1)..Len(lines) :
              ~(lines[j].type = "user" /\ lines[j].tool_use_id = tool_use_id)

\* The line the step reads is a tool_result: it yields one ToolDone when its
\* id has an open call and nothing otherwise.
C14_Step ==
    LET line == stdout'[Len(stdout')]
    IN  line.type = "user" =>
            IF OpenCall(stdout, line.tool_use_id)
            THEN /\ Len(yielded') = Len(yielded) + 1
                 /\ yielded'[Len(yielded')].type = "tool_done"
            ELSE yielded' = yielded

\* C14: in the events of one adapter run every ToolDone's call id was emitted
\* by an earlier ToolStart, a ToolStart is followed by at most one ToolDone
\* with its call id, and a tool_result that matches no open call emits nothing.
C14_ToolDoneFollowsStart ==
    [][Len(stdout') = Len(stdout) + 1 /\ ToolEventsLinked(yielded') /\ C14_Step]_vars

\* A tool started and finished, and a second tool_result for it emitted nothing.
C14_Witness ==
    /\ stdout = <<ToolUseBlockStart(1), UserLine(1, FALSE), UserLine(1, FALSE)>>
    /\ Len(yielded) = 2
    /\ yielded[1].type = "tool_start" /\ yielded[2].type = "tool_done"
    /\ yielded[1].tool_call_id = yielded[2].tool_call_id

\* The tool_result read by the step closes a call whose full input an
\* assistant line has recorded: the ToolDone yielded carries that input and
\* the turn engine's ToolCall for the call id holds it.
C15_Step ==
    LET line == stdout'[Len(stdout')]
        entry == adapter.pending_tools[line.tool_use_id]
        calls == tasks'[1].assistant_tool_calls
    IN  (/\ line.type = "user"
         /\ line.tool_use_id \in DOMAIN adapter.pending_tools
         /\ entry.tool_input # None) =>
            /\ yielded'[Len(yielded')].input = entry.tool_input
            /\ \A k \in 1..Len(calls) :
                  calls[k].id = entry.render_id => calls[k].input = entry.tool_input

\* C15: the ToolDone the adapter emits for a call id carries the full input
\* recorded from the assistant line for that call, and the turn engine's
\* ToolCall ends up with it.
C15_ToolDoneCarriesInput == [][C15_Step]_vars

\* The session ids of the SessionIdEvents of a sequence, in order.
SessionIds(evs) ==
    LET ids == SelectSeq(evs, LAMBDA e : e.type = "session_id")
    IN  [i \in 1..Len(ids) |-> ids[i].cli_session_id]

\* The positions of the init lines that carry a session id.
InitsWithSid(lines) ==
    {i \in 1..Len(lines) : lines[i].type = "system" /\ lines[i].session_id # None}

\* C17: once an init line with a session id was read, the run has emitted
\* exactly one SessionIdEvent, with the id of the first such line, whatever
\* later init lines or the result line carry.
C17_SessionIdOnce ==
    InitsWithSid(stdout) # {} =>
        SessionIds(yielded) = <<stdout[Min(InitsWithSid(stdout))].session_id>>

\* Two init lines and a result line with session ids, one SessionIdEvent.
C17_Witness ==
    /\ stdout = <<InitLine("s1"), InitLine("s2"), ResultLine("s2")>>
    /\ SessionIds(yielded) = <<"s1">>
    /\ yielded[Len(yielded)] = DoneEvent

\* ToolStart{X} is in the events, followed later by ToolDone{X}.
StartedThenDone(evs, X) ==
    \E i \in 1..Len(evs) :
        /\ evs[i].type = "tool_start" /\ evs[i].tool_call_id = X
        /\ \E j \in (i + 1)..Len(evs) :
              evs[j].type = "tool_done" /\ evs[j].tool_call_id = X

\* The recorded ToolCalls are those of the ToolStarts; one whose ToolDone
\* followed has an output or an error and a completion time, any other is open.
ToolCallsLinked(evs, calls) ==
    /\ Len(calls) = Len(SelectSeq(evs, LAMBDA e : e.type = "tool_start"))
    /\ \A k \in 1..Len(calls) :
          IF StartedThenDone(evs, calls[k].id)
          THEN /\ calls[k].output # None \/ calls[k].error # None
               /\ calls[k].completed_at # None
          ELSE /\ calls[k].completed_at = None
               /\ calls[k].output = None /\ calls[k].error = None

\* C16: for every event sequence the turn engine takes, the ToolCall of a
\* ToolStart that a ToolDone with its call id followed has an output or error
\* and a completion time, and every other ToolCall is open; the assistant
\* message finalized on Done holds these ToolCalls.
C16_ToolCallLinkage ==
    /\ ToolCallsLinked(yielded, tasks[1].assistant_tool_calls)
    /\ (yielded # <<>> /\ yielded[Len(yielded)].type = "done") =>
          /\ tasks[1].messages[Len(tasks[1].messages)].role = "assistant"
          /\ ToolCallsLinked(yielded,
                             tasks[1].messages[Len(tasks[1].messages)].tool_calls)
          /\ store = tasks[1].messages

\* Two tools started, the first finished with an error, then Done: the
\* saved message holds a completed and an open ToolCall.
C16_Witness ==
    /\ Len(yielded) = 4
    /\ yielded[1].type = "tool_start" /\ yielded[2].type = "tool_start"
    /\ yielded[3].type = "tool_done" /\ yielded[3].tool_call_id = yielded[1].tool_call_id
    /\ yielded[3].error # None
    /\ yielded[4].type = "done"
    /\ Len(store) = 2
    /\ store[2].tool_calls[1].completed_at # None
    /\ store[2].tool_calls[2].completed_at = None

\* C18: no SessionIdEvent is among the events Session.send hands on through
\* parse_interactions to the handler, and none is sent to the client, in the
\* first invocation of a turn as in its follow-up invocations.
C18_SessionIdInternal ==
    /\ \A i \in 1..Len(client) : client[i].ev.type # "session_id"
    /\ \A t \in Turns : \A i \in 1..Len(tasks[t].parsed) :
          tasks[t].parsed[i].type # "session_id"

\* A follow-up invocation has taken the provider's SessionIdEvent and its
\* text has reached the client.
C18_Witness ==
    \E t \in Turns :
        /\ tasks[t].invocations = 2
        /\ tasks[t].launched.resume = Sid
        /\ Len(tasks[t].script) = 1
        /\ tasks[t].parsed = <<TextChunkEvent(TextA)>>
        /\ tasks[t].pc = "sending"
        /\ client[Len(client)] = [turn |-> t, ev |-> TextChunkEvent(TextA)]

\* An invocation of turn t is launched by the step: with the resumption id
\* and no system instructions if an invocation of the conversation has
\* emitted a session id before, with the system instructions and no
\* resumption id otherwise.
C19_Step(t) ==
    tasks'[t].invocations = tasks[t].invocations + 1 =>
        tasks'[t].launched =
            IF \E u \in Turns : tasks[u].cli_session_id # None
            THEN [resume |-> Sid, system_prompt |-> FALSE]
            ELSE [resume |-> None, system_prompt |-> TRUE]

\* C19: the first invocation of a conversation is launched with the system
\* instructions; once an invocation has emitted a session id, every later
\* invocation, of the same or a later turn, resumes with it.
C19_SessionResumption == [][\A t \in Turns : C19_Step(t)]_vars

\* C20: the client receives the events of a connection's turns in turn
\* order: once a newer turn has sent an event, no older turn sends one, its
\* terminal done included.
C20_NoTurnOverlap ==
    \A i, j \in 1..Len(client) : i < j => client[i].turn <= client[j].turn

\* The events a step appends to what the socket has received.
NewlyReceived(ws) == SubSeq(received'[ws], Len(received[ws]) + 1, Len(received'[ws]))

\* A step of the turn of socket ws that sends something.
TurnSends(ws) == runs'[ws].tk # runs[ws].tk /\ Len(received'[ws]) > Len(received[ws])

\* C21: every event that a turn started by a user_message on one socket sends
\* is delivered to every open socket registered for the same session id, not
\* only to the socket the message came from.
C21_TurnEventsFanOut ==
    [][\A ws \in Sockets :
          TurnSends(ws) =>
             \A w \in Sockets :
                (/\ w \notin closed
                 /\ \E k \in 1..Len(ConnsOf(connections, runs[ws].session_id)) :
                       ConnsOf(connections, runs[ws].session_id)[k] = w)
                => NewlyReceived(w) = NewlyReceived(ws)]_vars

Members(list) == {list[k] : k \in 1..Len(list)}

GotData(rcv, ws, data) == \E k \in 1..Len(rcv[ws]) : rcv[ws][k] = data

\* The step is one iteration of the send in progress, for socket Head(todo).
C22_Step ==
    LET id == sending.id
        ws == Head(sending.todo)
        newly == sending'.failed \ sending.failed
    IN  /\ sending'.todo = Tail(sending.todo)
        /\ newly \subseteq {ws}
        /\ received' = IF newly = {} THEN [received EXCEPT ![ws] = Append(@, sending.data)]
                       ELSE received
        /\ Members(ConnsOf(connections', id)) = Members(ConnsOf(connections, id)) \ newly
        /\ id \in DOMAIN connections' <=> Members(ConnsOf(connections', id)) # {}
        /\ \A other \in Conversations \ {id} :
              /\ other \in DOMAIN connections' <=> other \in DOMAIN connections
              /\ ConnsOf(connections', other) = ConnsOf(connections, other)
        /\ runs' = runs
        /\ sending'.todo = <<>> =>
              /\ \A w \in Members(sending.snapshot) :
                    w \in sending'.failed \/ GotData(received', w, sending.data)
              /\ Members(ConnsOf(connections', id)) \cap Members(sending.snapshot)
                    = {w \in Members(sending.snapshot) \ sending'.failed :
                          runs[w].loop = "running"}

\* C22: send(id, data) attempts delivery to every socket registered for id when
\* it was called; each iteration removes from the set of id exactly the socket
\* whose delivery failed, drops the entry of id once the set is empty, raises
\* nothing to the caller and leaves the sets of all other ids as they are, so
\* that when send returns the sockets of the call still registered are those
\* whose delivery succeeded (and whose endpoint has not exited meanwhile).
C22_SendDropsFailed ==
    [][(sending.todo # <<>> /\ sending' # sending) => C22_Step]_vars

\* A send over two sockets has returned: one delivery failed, that socket is
\* gone from the set and the other one received the data and is registered.
C22_Witness ==
    /\ sending.id # None /\ sending.todo = <<>>
    /\ Len(sending.snapshot) = 2
    /\ Cardinality(sending.failed) = 1
    /\ Members(ConnsOf(connections, sending.id)) = Members(sending.snapshot) \ sending.failed
    /\ \A w \in Members(sending.snapshot) \ sending.failed :
          GotData(received, w, sending.data)

IsPrefix(s, t) == Len(s) <= Len(t) /\ SubSeq(t, 1, Len(s)) = s

\* No two runs are in flight against one session id.
OneRunPerConversation(rs) ==
    \A r1, r2 \in Runners :
        (r1 # r2 /\ IsActive(rs[r1].tk) /\ IsActive(rs[r2].tk))
        => rs[r1].session_id # rs[r2].session_id

\* A save keeps every message persisted before it.
SavesExtend == \A c \in Conversations : IsPrefix(stores[c], stores'[c])

\* C30: at no time are two turn engine runs in flight against the same
\* session id (from two sockets, or from a socket and the external chat's
\* sender), and no save of one turn overwrites a persisted message of another.
C30_SingleWriter == [][OneRunPerConversation(runs') /\ SavesExtend]_vars

\* What the client received for turn t, in order.
ClientOf(t) ==
    LET mine == SelectSeq(client, LAMBDA m : m.turn = t)
    IN  [i \in 1..Len(mine) |-> mine[i].ev]

\* The events of a stream that the transport forwards: all but the internal
\* SessionIdEvent and DoneEvent.
Forwardable(evs) == SelectSeq(evs, LAMBDA e : e.type \notin {"session_id", "done"})

\* What the client received for turn t ahead of the transport's terminal done.
StreamOf(t) == SelectSeq(ClientOf(t), LAMBDA e : e.type # "done")

\* C23: the events of a turn reach the client in exactly the order the tag
\* parser produced them: at any time what the client has received for the
\* turn is the beginning of what the parser has yielded minus the internal
\* SessionIdEvent and DoneEvent, and all of it once the turn ended normally;
\* nothing is reordered, duplicated or lost in between.
C23_OrderPreserved ==
    \A t \in Turns :
        sessionExists =>
           /\ IsPrefix(StreamOf(t), Forwardable(tasks[t].produced))
           /\ tasks[t].completed => StreamOf(t) = Forwardable(tasks[t].produced)

\* A turn that ended normally after a text, a request and the text of the
\* follow-up invocation, all received in that order.
C23_Witness ==
    \E t \in Turns :
        /\ tasks[t].completed /\ tasks[t].pc = "returned"
        /\ Len(StreamOf(t)) = 3
        /\ StreamOf(t)[1].type = "text_chunk"
        /\ StreamOf(t)[2].type = "interaction_request"
        /\ StreamOf(t)[3].type = "text_chunk"
        /\ StreamOf(t) = Forwardable(tasks[t].produced)
        /\ HasType(tasks[t].produced, "done")

\* The provider's stream of the run is over and did not reach Done.
FailedMidStream == tasks[1].ended /\ ~HasType(yielded, "done")

\* C24: when the provider fails mid-stream (it raises, it reports an Error
\* event and stops, or its stream ends without Done), the assistant content and
\* tool calls accumulated so far are the last Message of the persisted
\* conversation, also when only tool calls were accumulated.
C24_PartialPersisted ==
    (/\ FailedMidStream
     /\ tasks[1].assistant_content # <<>> \/ tasks[1].assistant_tool_calls # <<>>)
    => /\ store # <<>>
       /\ store[Len(store)] = AssistantMessage(tasks[1].assistant_content,
                                               tasks[1].assistant_tool_calls)

\* The provider's stream of the turn's latest invocation is over and did not
\* reach Done: the provider raised, reported an error and stopped, or its
\* subprocess exited without a result line.
ProviderFailed(t) == tasks[t].ended /\ ~tasks[t].parser.closed

\* C25: a turn whose provider failed, and that was neither stopped nor
\* cancelled, has sent an Error event to the client by the time it ends.
C25_FailureSendsError ==
    \A t \in Turns :
        (ProviderFailed(t) /\ tasks[t].completed /\ tasks[t].pc = "returned")
        => HasType(ClientOf(t), "error")

RECURSIVE Concatenated(_)
\* The contents of the text chunks of a stream, one after the other.
Concatenated(evs) ==
    IF evs = <<>> THEN <<>>
    ELSE (IF Head(evs).type = "text_chunk" THEN Head(evs).content ELSE <<>>)
         \o Concatenated(Tail(evs))

RECURSIVE Paragraphs(_, _, _)
\* The contents of the text chunks of a stream, with a blank line where text
\* resumes after a ToolDone and text came before it.
Paragraphs(evs, text, after_tool) ==
    IF evs = <<>> THEN text
    ELSE IF Head(evs).type = "text_chunk"
    THEN Paragraphs(Tail(evs),
                    (IF after_tool /\ text # <<>> THEN text \o ParagraphSep ELSE text)
                    \o Head(evs).content,
                    FALSE)
    ELSE Paragraphs(Tail(evs), text, after_tool \/ Head(evs).type = "tool_done")

\* The tool_call_ids of the ToolStart events of a stream, in order.
StartedIds(evs) ==
    LET starts == SelectSeq(evs, LAMBDA e : e.type = "tool_start")
    IN  [i \in 1..Len(starts) |-> starts[i].tool_call_id]

\* The persisted conversation is the user message followed by one assistant
\* message with the given content and the tool calls of the stream.
SavedTurn(content) ==
    /\ store = tasks[1].messages
    /\ Len(store) = 2
    /\ store[1] = UserMessage(UserContent)
    /\ store[2].role = "assistant"
    /\ store[2].content = content
    /\ [i \in 1..Len(store[2].tool_calls) |-> store[2].tool_calls[i].id] = StartedIds(yielded)

\* C26 as stated: once the stream has reached Done, the conversation has grown
\* by the user message and one assistant message whose content is the
\* concatenation of the streamed text chunks and whose tool_calls are the tool
\* calls of the turn, and it is saved.
C26_ContentIsConcatenation ==
    HasType(yielded, "done") => SavedTurn(Concatenated(yielded))

\* C26 (amended): as above, the content being the text chunks joined with a
\* blank line inserted wherever text resumes after a completed tool call.
C26_ContentIsParagraphs ==
    HasType(yielded, "done") => SavedTurn(Paragraphs(yielded, <<>>, FALSE))

\* Text, a tool call from start to done, text again and Done: the saved
\* content holds both texts with the blank line between them.
C26_Witness ==
    /\ Len(yielded) = 5
    /\ yielded[1].type = "text_chunk" /\ yielded[2].type = "tool_start"
    /\ yielded[3].type = "tool_done" /\ yielded[4].type = "text_chunk"
    /\ yielded[5].type = "done"
    /\ yielded[3].tool_call_id = yielded[2].tool_call_id
    /\ store[2].content = TextA \o ParagraphSep \o TextA
    /\ Len(store[2].tool_calls) = 1
    /\ SavedTurn(Paragraphs(yielded, <<>>, FALSE))

\* The provider's stream so far is made of text chunks and Done.
TextOnly(evs) == \A i \in 1..Len(evs) : evs[i].type \in {"text_chunk", "done"}

\* C27: for a provider stream of text chunks terminated by Done, the stream
\* of Session.send yields every text chunk unchanged and in order, chunk by
\* chunk as the provider yields them, and exactly one Done, which is its last
\* event.
C27_ChunksThenDone ==
    (TextOnly(yielded) /\ ~FailedMidStream) =>
       /\ tasks[1].streamed = yielded
       /\ HasType(yielded, "done") =>
             /\ tasks[1].streamed[Len(tasks[1].streamed)] = DoneEvent
             /\ Cardinality({i \in 1..Len(tasks[1].streamed) :
                                tasks[1].streamed[i].type = "done"}) = 1

\* Two chunks and Done went through Session.send.
C27_Witness ==
    /\ yielded = <<TextChunkEvent(TextA), TextChunkEvent(TextA), DoneEvent>>
    /\ tasks[1].streamed = yielded
    /\ tasks[1].ended

\* The text and interaction events among what the generator yielded, adjacent
\* TextChunks joined.
MarkupOut ==
    Coalesce(SelectSeq(pOut, LAMBDA e : e.type = "text_chunk" \/ IsInteraction(e)))

\* C28: an <ask-form> block with zero valid child questions is never fatal:
\* once the stream has ended with Done the parser has yielded no form event
\* for it and registered nothing for it, and the block's raw text, with
\* everything after it, has come out verbatim as TextChunk content (after the
\* text or the request that preceded it).
C28_EmptyFormIsText ==
    pState.closed =>
       /\ MarkupOut = Coalesce(ExpectedEvents(pSegs, 1))
       /\ ~HasType(pOut, "interaction_form")
       /\ DOMAIN registry = {pOut[i].request_id : i \in {j \in 1..Len(pOut) : IsInteraction(pOut[j])}}
       /\ Cardinality(DOMAIN registry) = IF pSegs[1].kind = "tag" THEN 1 ELSE 0

\* "<ask>q</ask><ask-form></ask-form><ask>q</ask>" was delivered: the first
\* request was extracted, the empty form and what follows came out as text.
C28_Witness ==
    /\ pState.closed
    /\ pText = AskQ \o TagForm \o <<">">> \o CloseForm \o AskQ
    /\ MarkupOut = <<InteractionRequestEvent(1, <<"q">>, TypeText, <<>>),
                     TextChunkEvent(TagForm \o <<">">> \o CloseForm \o AskQ)>>
    /\ DOMAIN registry = {1}

\* What a step appends to the generator's output.
NewOut == SubSeq(pOut', Len(pOut) + 1, Len(pOut'))

\* The step consumes the event e, which is neither text nor Done: the output
\* grows by at most one non-empty TextChunk followed by e itself; that text
\* and the buffer left make up the buffer before; and the text is all of the
\* buffer before its earliest tag start or, without one, before its longest
\* trailing tag prefix.
C29_Step(e) ==
    LET text == IF Len(NewOut) = 2 THEN NewOut[1].content ELSE <<>>
    IN  /\ Len(NewOut) \in {1, 2}
        /\ NewOut[Len(NewOut)] = e
        /\ Len(NewOut) = 2 => NewOut[1].type = "text_chunk" /\ text # <<>>
        /\ text \o pState'.buf = pState.buf
        /\ Len(text) = IF FirstTagPos(pState.buf).pos # 0
                       THEN FirstTagPos(pState.buf).pos - 1
                       ELSE Len(pState.buf) - LongestTrailingPrefix(pState.buf)
        /\ registry' = registry /\ pState'.pending = pState.pending

\* C29: every event other than text and Done that the parser receives is
\* yielded exactly once, unchanged and at its place in the order received,
\* right after the buffered text that can safely be emitted; no other step
\* yields such an event.
C29_OtherEventsForwarded ==
    [][pOut' # pOut \/ pInput' # pInput =>
          IF pInput # <<>> /\ Head(pInput).type \notin {"text_chunk", "done"}
          THEN C29_Step(Head(pInput))
          ELSE \A i \in 1..Len(NewOut) :
                  NewOut[i].type = "text_chunk" \/ IsInteraction(NewOut[i])
                  \/ NewOut[i].type = "done"]_vars

\* "a<ask-" was buffered with "<ask-" held back when the ToolStart came: it
\* was yielded after nothing new, "a" having been emitted before, and the tag
\* prefix is still held.
C29_Witness ==
    /\ Len(pInput) = 2
    /\ Len(pOut) = 2
    /\ pOut[1] = TextChunkEvent(<<"a">>)
    /\ pOut[2] = ToolStartEvent(1, ToolName, EmptyInput)
    /\ pState.buf = SubSeq(TagForm, 1, 5)

RECURSIVE TextOf(_)
\* The characters of the TextChunks of an event sequence, in order.
TextOf(evs) ==
    IF evs = <<>> THEN <<>>
    ELSE (IF Head(evs).type = "text_chunk" THEN Head(evs).content ELSE <<>>)
         \o TextOf(Tail(evs))

RECURSIVE PlainOf(_)
\* The characters of the input that belong to no complete tag, in order.
PlainOf(segs) ==
    IF segs = <<>> THEN <<>>
    ELSE (IF Head(segs).kind = "text" THEN Head(segs).markup ELSE <<>>)
         \o PlainOf(Tail(segs))

\* C31: when a stream that ends in a held-back opener prefix or in the head
\* of a tag that is never closed is terminated by Done, the parser has
\* emitted, as TextChunk content, exactly the input characters that are not
\* part of an extracted tag, each once and in input order, the tail
\* included, with the extracted tag's event at its place between them.
C31_FinalFlush ==
    pState.closed =>
       /\ TextOf(pOut) = PlainOf(pSegs)
       /\ Coalesce(SelectSeq(pOut, LAMBDA e : e.type # "done"))
             = Coalesce(ExpectedEvents(pSegs, 1))

\* "a<ask>q</ask>a<ask>q" was delivered with the split inside the unclosed
\* tag: the request was extracted and the unclosed head came out as text.
C31_Witness ==
    /\ pState.closed
    /\ pText = <<"a">> \o AskQ \o <<"a">> \o TagAsk \o <<">", "q">>
    /\ Len(pOut) >= 3
    /\ pOut[2] = InteractionRequestEvent(1, <<"q">>, TypeText, <<>>)
    /\ TextOf(pOut) = <<"a", "a">> \o TagAsk \o <<">", "q">>
    /\ pOut[Len(pOut)].type = "text_chunk"
    /\ pOut[Len(pOut)].content \in {TagAsk \o <<">", "q">>, <<"q">>, <<">", "q">>}

\* A ToolDone came after the last text chunk of the stream (or before any).
ToolSinceText(evs) ==
    \E i \in 1..Len(evs) :
       /\ evs[i].type = "tool_done"
       /\ \A j \in (i + 1)..Len(evs) : evs[j].type # "text_chunk"

\* The step takes one more provider event, and it is a text chunk: the
\* content grows by the chunk, preceded by the separator exactly when a tool
\* call was completed since the last text and text was accumulated before.
C32_Step ==
    LET e == yielded'[Len(yielded')]
        grown == tasks'[1].assistant_content
        was == tasks[1].assistant_content
    IN  IF e.type = "text_chunk"
        THEN grown = was
                     \o (IF ToolSinceText(yielded) /\ Concatenated(yielded) # <<>>
                         THEN ParagraphSep ELSE <<>>)
                     \o e.content
        ELSE grown = was

\* C32: in the assistant content accumulated by Session.send the separator
\* "\n\n" is put before a text chunk exactly when the chunk is the first text
\* after a completed tool call and text was accumulated before it; never at
\* the start of the content, never between two consecutive text chunks, and
\* no other event changes the content.
C32_SeparatorPlacement == [][Len(yielded') = Len(yielded) + 1 => C32_Step]_vars

\* Tool call first, then two text chunks, a second tool call and text again:
\* one separator, before the third chunk only.
C32_Witness ==
    /\ Len(yielded) = 5
    /\ yielded[1].type = "tool_done" /\ yielded[2].type = "text_chunk"
    /\ yielded[3].type = "text_chunk" /\ yielded[4].type = "tool_done"
    /\ yielded[5].type = "text_chunk"
    /\ tasks[1].assistant_content = TextA \o TextA \o ParagraphSep \o TextA

\* A text run is open after the lines read: the last of the lines that open
\* or close one (a block start, message_stop, result) is the start of a text
\* block.
RunOpen(lines) ==
    LET marks == SelectSeq(lines, LAMBDA l :
                    \/ l.type = "result"
                    \/ (l.type = "stream_event"
                        /\ l.raw_type \in {"content_block_start", "message_stop"}))
    IN  IF marks = <<>> THEN FALSE
        ELSE LET m == marks[Len(marks)]
             IN  IF m.type = "result" THEN FALSE
                 ELSE m.raw_type = "content_block_start" /\ m.block_type = "text"

\* What the adapter yields for the line it reads in this step.
YieldedNow == SubSeq(yielded', Len(yielded) + 1, Len(yielded'))

\* The adapter reads `line`: a text delta yields its text as one TextChunk if
\* a text run is open and nothing otherwise, the start of a text block yields
\* nothing, and no other line yields a TextChunk.
C33_Step(line) ==
    IF line.type = "stream_event" /\ line.raw_type = "content_block_delta"
    THEN YieldedNow = IF RunOpen(stdout) THEN <<TextChunkEvent(line.text)>> ELSE <<>>
    ELSE /\ ~HasType(YieldedNow, "text_chunk")
         /\ (line.type = "stream_event" /\ line.raw_type = "content_block_start"
             /\ line.block_type = "text") => YieldedNow = <<>>

\* C33: a text_delta line emits a TextChunk if and only if a text run is
\* open; a run is opened only by a content_block_start of kind text, which
\* emits nothing itself, and is closed by a tool_use block start, by
\* message_stop and by result, so that a text_delta before any text block or
\* after one of these emits nothing.
C33_TextDeltaNeedsOpenRun ==
    [][Len(stdout') = Len(stdout) + 1 => C33_Step(stdout'[Len(stdout')])]_vars

\* A delta inside a text block was emitted; after a result line closed the
\* run, the next delta was not.
C33_Witness ==
    /\ Len(stdout) = 4
    /\ stdout[1] = TextBlockStart /\ stdout[2] = TextDelta(TextA)
    /\ stdout[3].type = "result" /\ stdout[4] = TextDelta(TextA)
    /\ SelectSeq(yielded, LAMBDA e : e.type = "text_chunk") = <<TextChunkEvent(TextA)>>

\* C39: in the events of one adapter run Done comes at most once and is the
\* last event: nothing is emitted after it.
C39_DoneTerminal ==
    \A i \in 1..Len(yielded) : yielded[i].type = "done" => i = Len(yielded)

\* The frames of type error a socket has received.
ErrorsAt(ws) == SelectSeq(received[ws], LAMBDA d : d.type = "error")

\* The transport loop of ws ends in this step: its turn, if one is in
\* flight, is cancelled; ws is registered for no conversation any more; no
\* socket receives anything, and the other sockets' loops and turns are as
\* they were.
C34_Step(ws) ==
    /\ InFlight(ws) => runs'[ws].tk.pc = "cancelled"
    /\ ~IsActive(runs'[ws].tk)
    /\ \A id \in Conversations : ws \notin Members(ConnsOf(connections', id))
    /\ \A id \in Conversations :
          ConnsOf(connections', id) = Removed(ConnsOf(connections, id), ws)
    /\ received' = received
    /\ \A w \in Runners \ {ws} : runs'[w] = runs[w]

\* C34: when a connection's transport loop ends, on a client disconnect or a
\* transport error, its in-flight turn is cancelled and its socket leaves the
\* Fan-out; nothing is sent to any connection because of it, an error event
\* in particular.
C34_ConnectionLossIsCleanup ==
    [][\A ws \in Sockets :
          (runs[ws].loop = "running" /\ runs'[ws].loop = "exited") => C34_Step(ws)]_vars

\* Socket 1 went away with its turn in flight: the turn is cancelled, and
\* socket 2, on the same conversation, is the one socket still registered
\* and has received no error.
C34_Witness ==
    /\ runs[1].loop = "exited" /\ runs[1].tk.pc = "cancelled"
    /\ runs[2].loop = "running" /\ runs[2].session_id = runs[1].session_id
    /\ ConnsOf(connections, runs[1].session_id) = <<2>>
    /\ ErrorsAt(2) = <<>>

\* The ids of the interaction events the client received in turn t.
AskedIds(t) ==
    {client[i].ev.request_id : i \in Sent(t, {"interaction_request", "interaction_form"})}

\* C35: when a turn has completed normally, every interaction request the
\* client received during it was awaited: the turn made one follow-up
\* invocation of the provider per request, and none of the requests is left
\* waiting in the registry.
C35_EveryRequestAwaited ==
    \A t \in Turns :
       tasks[t].completed =>
          /\ tasks[t].invocations = 1 + Cardinality(AskedIds(t))
          /\ AskedIds(t) \cap DOMAIN registry = {}

IsSuffix(s, t) == Len(s) <= Len(t) /\ SubSeq(t, Len(t) - Len(s) + 1, Len(t)) = s

\* The parser has just forwarded the tool or error event that came between
\* the two parts of the text: the second part and Done are still to come.
EventJustForwarded ==
    /\ Len(pInput) = 2
    /\ pOut # <<>>
    /\ pOut[Len(pOut)].type \in {"tool_start", "tool_done", "error"}

\* The text the parser emits from here to the end of the stream.
TextToCome == TextOf(ParseAll(pState, pInput, nextId))

\* C36 as stated: no character of the text received before a non-text event
\* is emitted after the event: all the text emitted after it comes from the
\* text received after it.
C36_TextNotDelayed ==
    EventJustForwarded => IsSuffix(TextToCome, pInput[1].content)

\* C36 (amended): the only characters received before a non-text event that
\* are emitted after it are those the parser holds back as possible markup,
\* a trailing prefix of a tag opener or the buffer from an unfinished tag
\* start on; they come first in the text emitted after the event.
C36_OnlyHeldMarkupDelayed ==
    EventJustForwarded =>
       /\ IsSuffix(TextToCome, pState.buf \o pInput[1].content)
       /\ \/ pState.buf = <<>>
          \/ FirstTagPos(pState.buf).pos = 1
          \/ LongestTrailingPrefix(pState.buf) = Len(pState.buf)

\* "a<ask-form>" had been received when the ToolStart came: "a" went out
\* before it, the form's head after it, since the form has no child question.
C36_Witness ==
    /\ EventJustForwarded
    /\ pOut = <<TextChunkEvent(<<"a">>), ToolStartEvent(1, ToolName, EmptyInput)>>
    /\ pState.buf = TagForm \o <<">">>
    /\ IsPrefix(pState.buf, TextToCome)

\* C37: when the inner stream has ended without Done, after an ErrorEvent or
\* on its own, the parser has emitted every character it received that is
\* not part of an extracted tag, the held-back suffix or unterminated tag
\* head included.
C37_NothingDropped == pState.closed => TextOf(pOut) = PlainOf(pSegs)

\* The complete well-formed tags of the stream: the one before the block
\* that cannot be extracted, if there is one, and the one after it, if there
\* is one.
WellFormedInStream ==
    (IF pSegs[1].kind = "tag" THEN 1 ELSE 0) + (IF IsSuffix(AskQ, pText) THEN 1 ELSE 0)

\* C38: an <ask-form> block without valid children does not block the parser:
\* when the stream has ended with Done, every complete well-formed tag of the
\* stream, those after the block included, has been emitted as an interaction
\* event.
C38_LaterTagsExtracted ==
    pState.closed => CountInteractions(pOut) = WellFormedInStream

RECURSIVE ContentOf(_)
\* The contents of the assistant messages of a message list, in order.
ContentOf(msgs) ==
    IF msgs = <<>> THEN <<>>
    ELSE (IF Head(msgs).role = "assistant" THEN Head(msgs).content ELSE <<>>)
         \o ContentOf(Tail(msgs))

\* The events the client received for turn t, in order.
ReceivedIn(t) ==
    LET mine == SelectSeq(client, LAMBDA c : c.turn = t)
    IN  [i \in 1..Len(mine) |-> mine[i].ev]

\* Every invocation of turn t reached Done and persisted its assistant message.
AllPersisted(t) ==
    Len(SelectSeq(AppendedBy(t), LAMBDA m : m.role = "assistant")) = tasks[t].invocations

\* C40: when a turn has completed normally, each of its streams having
\* reached Done, the assistant content it persisted is the text the client
\* received as TextChunk events for the turn: markup that the parser replaced
\* by an interaction event is not in it.
C40_PersistedIsReceived ==
    \A t \in Turns :
       (tasks[t].completed /\ AllPersisted(t)) =>
          ContentOf(AppendedBy(t)) = TextOf(ReceivedIn(t))

====
